---- MODULE Spec2Model ----
(***************************************************************************)
(* nats-auth-operator: the credential hierarchy reconciliation engine.     *)
(*                                                                         *)
(* One NatsAuthConfig (the Operator), the NatsAccounts and NatsUsers that  *)
(* reference it, and the Secrets the three reconcilers read and write.     *)
(* A reconcile is one atomic step: the reconcilers of one object are       *)
(* serialized by the work queue, and every handler runs to its return.     *)
(* The one store failure modelled inside a handler is a conflict on the    *)
(* final Status().Update of an Account or User.                            *)
(***************************************************************************)
EXTENDS Integers, Sequences, FiniteSets, TLC

\* ------------------------------------------------------------------ bounds
\* Fresh keypairs (passwords, usernames) one owner may persist in a behaviour.
MaxGen == 2
\* Interventions of other actors (edits, deletions, rotations, a write that
\* makes a status update conflict) in a behaviour.
MaxDisruptions == 2

\* ------------------------------------------------------------- value space
\* The empty string, a nil pointer, an absent Secret, a missing data key.
NoValue == <<>>

CfgName == "cfg"
CfgNs == "ns1"
OtherNs == "ns2"

\* Account resource names. "operator" is a legal resource name; "a3" lives in
\* another namespace and references the config across namespaces.
Accounts == {"a1", "operator", "a3"}
Users == {"u1", "u2"}

AuthModes == {"jwt", "token", "mixed"}

\* jwt.NoLimit, the library default of every account limit.
NoLimit == -1

\* ------------------------------------------------------------------- state
VARIABLES
    cfgMeta,        \* the NatsAuthConfig object: its phase and its finalizer
    cfgSpec,        \* NatsAuthConfig.Spec: mode, jwt block, operatorSeedSecret
    cfgStatus,      \* NatsAuthConfig.Status
    cfgDirty,       \* annotation nats.jradikk/last-account-update was bumped
                    \* and the NatsAuthConfig has not been reconciled since
    opSeedSecret,   \* Secret <cfg>-operator-seed, key operator.seed
    extSecrets,     \* Secrets the declared state refers to (seed / password)
    target,         \* the object named by spec.serverAuthConfig
    acctMeta,       \* per account: phase of the object and its finalizer
    acctSpec,       \* NatsAccount.Spec
    acctStatus,     \* NatsAccount.Status
    acctSecret,     \* Secret <account>-account-jwt
    userMeta,       \* per user: phase of the object
    userSpec,       \* NatsUser.Spec
    userStatus,     \* NatsUser.Status
    userSecret,     \* Secret <user>-user-creds
    workers,        \* reconciles in progress, step by step
    keyGen,         \* per owner: fresh keypairs / passwords persisted so far
    disruptions,    \* interventions of other actors so far
    now,            \* time.Now().Unix(), counted from the first reconcile
    last            \* the most recent operation and what it wrote

vars == <<cfgMeta, cfgSpec, cfgStatus, cfgDirty, opSeedSecret, extSecrets,
          target, acctMeta, acctSpec, acctStatus, acctSecret,
          userMeta, userSpec, userStatus, userSecret, workers, keyGen,
          disruptions, now, last>>

cfgVars == <<cfgMeta, cfgSpec, cfgStatus, cfgDirty, opSeedSecret, target>>
acctVars == <<acctMeta, acctSpec, acctStatus, acctSecret, workers>>
userVars == <<userMeta, userSpec, userStatus, userSecret>>

\* ------------------------------------------------------------ key material
\* nkeys.FromSeed: a seed is usable when it is non-empty and well formed.
ValidSeed(seed) == seed # NoValue /\ seed[1] # "malformed"

\* KeyPair.PublicKey: the public id is derived from the seed, and from
\* nothing else.
PublicKey(seed) == <<"pub">> \o seed

\* nkeys.CreateOperator / CreateAccount / CreateUser: a fresh random seed,
\* different from every seed generated before for this owner or another.
FreshSeed(owner) == <<owner, keyGen[owner] + 1>>

\* What a read of a referenced Secret yields when the Secret or the key is
\* not there; any other value is the content of the key, NoValue when the
\* key is there with no content.
MissingSecret == <<"missing">>

\* ----------------------------------------------------------- internal/jwt
\* nkeys.CreateOperator / CreateAccount / CreateUser inside a manager
\* constructor: the keypair the random source rand yields.
GeneratedSeed(kind, rand) == <<"generated", kind, rand>>

\* Mutant of NewAccountManager: the seed is ignored and a keypair is always
\* generated.
NewAccountManagerFresh(seed, rand) ==
    [err |-> "", kp |-> GeneratedSeed("account", rand)]

\* NewAccountManager: a non-empty seed is parsed (an error and no manager
\* when it is malformed); an empty seed makes the manager generate a keypair.
NewAccountManager(seed, rand) ==
    IF Len(seed) > 0
    THEN IF ValidSeed(seed) THEN [err |-> "", kp |-> seed]
         ELSE [err |-> "failed to create keypair from seed", kp |-> NoValue]
    ELSE [err |-> "", kp |-> GeneratedSeed("account", rand)]

\* NewUserManager.
NewUserManager(seed, rand) ==
    IF Len(seed) > 0
    THEN IF ValidSeed(seed) THEN [err |-> "", kp |-> seed]
         ELSE [err |-> "failed to create keypair from seed", kp |-> NoValue]
    ELSE [err |-> "", kp |-> GeneratedSeed("user", rand)]

\* NewOperatorManager: as above; the keypair is kept and the manager's
\* self-signed token is built from it.
NewOperatorManager(seed, rand) ==
    IF Len(seed) > 0
    THEN IF ValidSeed(seed) THEN [err |-> "", kp |-> seed]
         ELSE [err |-> "failed to create keypair from seed", kp |-> NoValue]
    ELSE [err |-> "", kp |-> GeneratedSeed("operator", rand)]

\* GetPublicKey / GetSeed of a manager.
GetPublicKey(mgr) == PublicKey(mgr.kp)
GetSeed(mgr) == mgr.kp

\* NewOperatorManager: the self-signed operator token of a keypair, issued
\* at the time of the call.
OperatorJWT(seed, operatorName) ==
    [typ |-> "operator", sub |-> PublicKey(seed), iss |-> PublicKey(seed),
     name |-> operatorName, iat |-> now]

\* A field of a declared object, or the given value where the declaration
\* leaves the field out.
Declared(fields, f, default) ==
    IF f \in DOMAIN fields THEN fields[f] ELSE default

\* JetStreamLimits as decoded from a declared jetstream object: the schema
\* has no defaults, a field left out is the zero value.
JetStreamLimits(fields) ==
    [memoryStorage |-> Declared(fields, "memoryStorage", 0),
     diskStorage |-> Declared(fields, "diskStorage", 0),
     streams |-> Declared(fields, "streams", 0),
     consumer |-> Declared(fields, "consumer", 0),
     maxAckPending |-> Declared(fields, "maxAckPending", 0),
     memoryMaxStreamBytes |-> Declared(fields, "memoryMaxStreamBytes", 0),
     diskMaxStreamBytes |-> Declared(fields, "diskMaxStreamBytes", 0),
     maxBytesRequired |-> Declared(fields, "maxBytesRequired", FALSE)]

\* AccountLimits as decoded from a declared limits object: a field left out
\* has the schema's default (-1, true), jetstream left out is nil.
AccountLimits(fields) ==
    [conn |-> Declared(fields, "conn", NoLimit),
     subs |-> Declared(fields, "subs", NoLimit),
     payload |-> Declared(fields, "payload", NoLimit),
     data |-> Declared(fields, "data", NoLimit),
     exports |-> Declared(fields, "exports", NoLimit),
     imports |-> Declared(fields, "imports", NoLimit),
     wildcardExports |-> Declared(fields, "wildcardExports", TRUE),
     jetStream |-> IF "jetstream" \in DOMAIN fields
                   THEN JetStreamLimits(fields.jetstream) ELSE NoValue]

\* jwt.NewAccountClaims: the limits of new account claims, no limit on the
\* account and JetStream off.
NewAccountClaimsLimits ==
    [conn |-> NoLimit, subs |-> NoLimit, payload |-> NoLimit,
     data |-> NoLimit, exports |-> NoLimit, imports |-> NoLimit,
     wildcardExports |-> TRUE,
     memoryStorage |-> 0, diskStorage |-> 0, streams |-> 0, consumer |-> 0,
     maxAckPending |-> 0, memoryMaxStreamBytes |-> 0,
     diskMaxStreamBytes |-> 0, maxBytesRequired |-> FALSE]

\* CreateAccountClaims, "Apply JetStream limits if specified".
applyJetStreamLimits(claimLimits, jetStream) ==
    IF jetStream = NoValue THEN claimLimits
    ELSE [claimLimits EXCEPT
            !.memoryStorage = jetStream.memoryStorage,
            !.diskStorage = jetStream.diskStorage,
            !.streams = jetStream.streams,
            !.consumer = jetStream.consumer,
            !.maxAckPending = jetStream.maxAckPending,
            !.memoryMaxStreamBytes = jetStream.memoryMaxStreamBytes,
            !.diskMaxStreamBytes = jetStream.diskMaxStreamBytes,
            !.maxBytesRequired = jetStream.maxBytesRequired]

\* Mutant of applyLimits: without declared limits the account is given
\* limits of zero.
applyLimitsZero(claimLimits, limits) ==
    IF limits = NoValue
    THEN [claimLimits EXCEPT !.conn = 0, !.subs = 0, !.payload = 0,
                             !.data = 0, !.exports = 0, !.imports = 0]
    ELSE applyJetStreamLimits(
             [claimLimits EXCEPT
                !.conn = limits.conn, !.subs = limits.subs,
                !.payload = limits.payload, !.data = limits.data,
                !.exports = limits.exports, !.imports = limits.imports,
                !.wildcardExports = limits.wildcardExports],
             limits.jetStream)

\* CreateAccountClaims, "Apply limits if specified".
applyLimits(claimLimits, limits) ==
    IF limits = NoValue THEN claimLimits
    ELSE applyJetStreamLimits(
             [claimLimits EXCEPT
                !.conn = limits.conn, !.subs = limits.subs,
                !.payload = limits.payload, !.data = limits.data,
                !.exports = limits.exports, !.imports = limits.imports,
                !.wildcardExports = limits.wildcardExports],
             limits.jetStream)

\* AccountManager.CreateAccountClaims: subject is the account's public id,
\* the issuer is left empty, the time of the call is the issue time,
\* limits are copied when declared.
CreateAccountClaims(seed, name, description, limits) ==
    [typ |-> "account", sub |-> PublicKey(seed), iss |-> NoValue,
     name |-> name, description |-> description, iat |-> now]
    @@ applyLimits(NewAccountClaimsLimits, limits)

\* Mutant of SignAccountJWT: an issuer the caller filled in is kept.
SignAccountJWTKeepsIssuer(operatorSeed, accountClaims) ==
    IF accountClaims.iss # NoValue THEN accountClaims
    ELSE [accountClaims EXCEPT !.iss = PublicKey(operatorSeed)]

\* OperatorManager.SignAccountJWT: the issuer is overwritten with the
\* public id of the signing keypair, then the claims are encoded.
SignAccountJWT(operatorSeed, accountClaims) ==
    [accountClaims EXCEPT !.iss = PublicKey(operatorSeed)]

\* UserManager.CreateUserClaims: a permission list is added when non-empty.
CreateUserClaims(seed, name, permissions) ==
    [typ |-> "user", sub |-> PublicKey(seed), iss |-> NoValue, name |-> name,
     iat |-> now,
     pubAllow |-> IF permissions = NoValue THEN {} ELSE permissions.publishAllow,
     pubDeny |-> IF permissions = NoValue THEN {} ELSE permissions.publishDeny,
     subAllow |-> IF permissions = NoValue THEN {} ELSE permissions.subscribeAllow,
     subDeny |-> IF permissions = NoValue THEN {} ELSE permissions.subscribeDeny]

\* AccountManager.SignUserJWT.
SignUserJWT(accountSeed, userClaims) ==
    [userClaims EXCEPT !.iss = PublicKey(accountSeed)]

\* GenerateCredsFile: the text block holding the token and the seed.
GenerateCredsFile(userJWT, userSeed) == [jwt |-> userJWT, seed |-> userSeed]

\* ------------------------------------------------------ internal/authconf
\* A rendered document is the sequence of its lines and a line is the
\* sequence of its pieces: literal text of the format string, or a value
\* printed with %q. The empty string is the document without lines.
Text(s) == <<"text", s>>
Quoted(s) == <<"%q", s>>

\* strings.Join(quoted, ", ").
RECURSIVE JoinQuoted(_)
JoinQuoted(subjects) ==
    IF Len(subjects) = 0 THEN <<>>
    ELSE IF Len(subjects) = 1 THEN <<Quoted(subjects[1])>>
    ELSE <<Quoted(subjects[1]), Text(", ")>> \o JoinQuoted(Tail(subjects))

\* Mutant of formatSubjectList: a single subject is bracketed like a list.
formatSubjectListBracketed(subjects) ==
    <<Text("[")>> \o JoinQuoted(subjects) \o <<Text("]")>>

\* formatSubjectList: one subject is printed quoted, any other number of
\* subjects as a bracketed list of the quoted subjects.
formatSubjectList(subjects) ==
    IF Len(subjects) = 1 THEN <<Quoted(subjects[1])>>
    ELSE <<Text("[")>> \o JoinQuoted(subjects) \o <<Text("]")>>

\* Mutant of permissionBlock: the block is written for empty lists too.
permissionBlockAlways(name, allow, deny) ==
    <<<<Text("        "), Text(name), Text(": {")>>,
      <<Text("          allow: ")>> \o formatSubjectList(allow),
      <<Text("          deny: ")>> \o formatSubjectList(deny),
      <<Text("        }")>>>>

\* RenderTokenAuthConf, the publish (subscribe) part of an entry: the block
\* when either list has a subject, in it a line for each list that has one.
permissionBlock(name, allow, deny) ==
    IF Len(allow) > 0 \/ Len(deny) > 0
    THEN <<<<Text("        "), Text(name), Text(": {")>>>>
         \o (IF Len(allow) > 0
             THEN <<<<Text("          allow: ")>> \o formatSubjectList(allow)>>
             ELSE <<>>)
         \o (IF Len(deny) > 0
             THEN <<<<Text("          deny: ")>> \o formatSubjectList(deny)>>
             ELSE <<>>)
         \o <<<<Text("        }")>>>>
    ELSE <<>>

\* RenderTokenAuthConf, the body of the loop: the entry of one user, closed
\* with a comma unless it is the last.
userEntry(user, isLast) ==
    <<<<Text("    {")>>>>
    \o (IF user.Username # ""
        THEN <<<<Text("      user: "), Quoted(user.Username)>>>> ELSE <<>>)
    \o (IF user.Token # ""
        THEN <<<<Text("      token: "), Quoted(user.Token)>>>>
        ELSE IF user.Password # ""
        THEN <<<<Text("      password: "), Quoted(user.Password)>>>>
        ELSE <<>>)
    \o (IF user.Permissions # NoValue
        THEN <<<<Text("      permissions: {")>>>>
             \o permissionBlock("publish", user.Permissions.PublishAllow,
                                user.Permissions.PublishDeny)
             \o permissionBlock("subscribe", user.Permissions.SubscribeAllow,
                                user.Permissions.SubscribeDeny)
             \o <<<<Text("      }")>>>>
        ELSE <<>>)
    \o <<IF isLast THEN <<Text("    }")>> ELSE <<Text("    }"), Text(",")>>>>

\* RenderTokenAuthConf, the loop over the users from the i-th on.
RECURSIVE userEntries(_, _)
userEntries(users, i) ==
    IF i > Len(users) THEN <<>>
    ELSE userEntry(users[i], i = Len(users)) \o userEntries(users, i + 1)

\* Mutant of RenderTokenAuthConf: the block is written for no users too.
RenderTokenAuthConfAlways(users) ==
    <<<<Text("authorization {")>>, <<Text("  users = [")>>>>
    \o userEntries(users, 1)
    \o <<<<Text("  ]")>>, <<Text("}")>>>>

\* RenderTokenAuthConf: the empty string for no users, else one
\* authorization block with one entry per user, in input order.
RenderTokenAuthConf(users) ==
    IF Len(users) = 0 THEN <<>>
    ELSE <<<<Text("authorization {")>>, <<Text("  users = [")>>>>
         \o userEntries(users, 1)
         \o <<<<Text("  ]")>>, <<Text("}")>>>>

\* RenderJWTAuthConfWithPreload, the loop over the accounts from the i-th
\* on: one line per account, with a comma unless it is the last.
RECURSIVE preloadEntries(_, _)
preloadEntries(accounts, i) ==
    IF i > Len(accounts) THEN <<>>
    ELSE <<<<Text("  "), Quoted(accounts[i].AccountID), Text(": "),
             Quoted(accounts[i].JWT)>>
           \o (IF i < Len(accounts) THEN <<Text(",")>> ELSE <<>>)>>
         \o preloadEntries(accounts, i + 1)

\* RenderJWTAuthConfWithPreload: the operator line, an empty line, and for
\* a non-empty account list the resolver_preload block.
RenderJWTAuthConfWithPreload(operatorJWT, accounts) ==
    <<<<Text("operator: "), Text(operatorJWT)>>, <<>>>>
    \o (IF Len(accounts) > 0
        THEN <<<<Text("resolver_preload: {")>>>>
             \o preloadEntries(accounts, 1)
             \o <<<<Text("}")>>>>
        ELSE <<>>)

\* ------------------------------------------------------ internal/resolver
\* WriteResolverConfig: create the object with the one key, or set the key
\* on the existing object and keep its other entries.
WriteResolverConfig(existing, key, content) ==
    IF existing = NoValue
    THEN [k \in {key} |-> content]
    ELSE [k \in DOMAIN existing \cup {key} |->
            IF k = key THEN content ELSE existing[k]]

\* []byte(content), and the API server's conversion of StringData to Data:
\* a Secret holds bytes where a ConfigMap holds text.
Bytes(content) == <<"bytes", content>>

\* The one object a call addresses in each kind: store.secret is the Data of
\* the Secret of that name, store.configMap the Data of the ConfigMap,
\* NoValue when there is no such object. fault is the API call that fails
\* with a store error: "get", "create", "update", or "" for none.
\* Mutant of writeToSecret: the Data of an existing Secret is replaced by
\* the one entry.
writeToSecretReplacesData(store, key, content, fault) ==
    IF fault = "get" THEN [err |-> "failed to get Secret", store |-> store]
    ELSE IF fault \in {"create", "update"}
    THEN [err |-> "failed to write Secret", store |-> store]
    ELSE [err |-> "",
          store |-> [store EXCEPT
                        !.secret = [k \in {key} |-> Bytes(content)]]]

\* writeToSecret: Get; when not found Create with the one entry; otherwise
\* set Data[key] and Update.
writeToSecret(store, key, content, fault) ==
    IF fault = "get" THEN [err |-> "failed to get Secret", store |-> store]
    ELSE IF store.secret = NoValue
    THEN IF fault = "create"
         THEN [err |-> "failed to create Secret", store |-> store]
         ELSE [err |-> "",
               store |-> [store EXCEPT
                             !.secret = [k \in {key} |-> Bytes(content)]]]
    ELSE IF fault = "update"
         THEN [err |-> "failed to update Secret", store |-> store]
         ELSE [err |-> "",
               store |-> [store EXCEPT
                             !.secret = [k \in DOMAIN store.secret \cup {key}
                                          |-> IF k = key THEN Bytes(content)
                                              ELSE store.secret[k]]]]

\* writeToConfigMap: the same on the ConfigMap, whose Data holds text.
writeToConfigMap(store, key, content, fault) ==
    IF fault = "get" THEN [err |-> "failed to get ConfigMap", store |-> store]
    ELSE IF store.configMap = NoValue
    THEN IF fault = "create"
         THEN [err |-> "failed to create ConfigMap", store |-> store]
         ELSE [err |-> "",
               store |-> [store EXCEPT
                             !.configMap = [k \in {key} |-> content]]]
    ELSE IF fault = "update"
         THEN [err |-> "failed to update ConfigMap", store |-> store]
         ELSE [err |-> "",
               store |-> [store EXCEPT
                             !.configMap =
                                 [k \in DOMAIN store.configMap \cup {key}
                                    |-> IF k = key THEN content
                                        ELSE store.configMap[k]]]]

\* WriteResolverConfig with its configType argument: "Secret" selects the
\* Secret, every other value the ConfigMap.
WriteResolverConfigOfType(store, configType, key, content, fault) ==
    IF configType = "Secret" THEN writeToSecret(store, key, content, fault)
    ELSE writeToConfigMap(store, key, content, fault)

\* A path is a sequence of segments, a segment a tuple of the pieces of its
\* name: <<"accounts">>, <<id, ".jwt">>. filepath.Clean, applied by
\* filepath.Join: "." segments go, ".." takes the segment before it along.
RECURSIVE Clean(_)
Clean(path) ==
    IF path = <<>> THEN <<>>
    ELSE LET init == Clean(SubSeq(path, 1, Len(path) - 1))
             seg == path[Len(path)]
         IN  IF seg = <<".">> THEN init
             ELSE IF seg = <<"..">>
             THEN IF Len(init) > 0 THEN SubSeq(init, 1, Len(init) - 1)
                  ELSE init
             ELSE Append(init, seg)

\* filepath.Join.
Join(dir, rest) == Clean(dir \o rest)

\* The directories above a path.
Parents(path) == {SubSeq(path, 1, n) : n \in 1..(Len(path) - 1)}

\* A Builder: the afero.Fs it was given (kind "mem" for MemMapFs, "os" for
\* OsFs; dirs the directories, files the pairs of path and content) and its
\* baseDir.
\* afero.Exists.
Exists(b, path) == path \in b.dirs \/ \E f \in b.files : f[1] = path

\* The file at a path: its path and content, or nothing.
FileAt(b, path) == {f \in b.files : f[1] = path}

\* fs.MkdirAll: the directory and those above it; an error when a file is
\* in the way.
MkdirAll(b, path) ==
    IF \E f \in b.files : f[1] \in Parents(path) \cup {path}
    THEN [err |-> "not a directory", builder |-> b]
    ELSE [err |-> "",
          builder |-> [b EXCEPT !.dirs = @ \cup Parents(path) \cup {path}]]

\* afero.WriteFile: the file is created or truncated and written. OsFs
\* needs the directory to exist; MemMapFs registers the directories above
\* the file as it creates it.
WriteFile(b, path, content) ==
    IF path \in b.dirs THEN [err |-> "is a directory", builder |-> b]
    ELSE IF b.kind = "os" /\ ~(Parents(path) \subseteq b.dirs)
    THEN [err |-> "no such file or directory", builder |-> b]
    ELSE [err |-> "",
          builder |-> [b EXCEPT
              !.files = {f \in @ : f[1] # path} \cup {<<path, content>>},
              !.dirs = IF b.kind = "mem" THEN @ \cup Parents(path) ELSE @]]

\* fs.Remove of a file.
Remove(b, path) ==
    [err |-> "", builder |-> [b EXCEPT !.files = {f \in @ : f[1] # path}]]

\* Builder.GetOperatorJWTPath.
GetOperatorJWTPath(b) == Join(b.baseDir, <<<<"operator", ".jwt">>>>)

\* Mutant of GetAccountJWTPath: one file for all accounts.
GetAccountJWTPathShared(b, accountID) ==
    Join(b.baseDir, <<<<"accounts">>, <<"account", ".jwt">>>>)

\* Builder.GetAccountJWTPath: <baseDir>/accounts/<accountID>.jwt.
GetAccountJWTPath(b, accountID) ==
    Join(b.baseDir, <<<<"accounts">>, <<accountID, ".jwt">>>>)

\* Builder.AccountJWTExists.
AccountJWTExists(b, accountID) == Exists(b, GetAccountJWTPath(b, accountID))

\* Builder.Initialize: the base directory, then its accounts directory.
Initialize(b) ==
    LET base == MkdirAll(b, Clean(b.baseDir))
    IN  IF base.err # ""
        THEN [err |-> "failed to create resolver directory", builder |-> b]
        ELSE LET accts == MkdirAll(base.builder,
                                   Join(b.baseDir, <<<<"accounts">>>>))
             IN  IF accts.err # ""
                 THEN [err |-> "failed to create accounts directory",
                       builder |-> base.builder]
                 ELSE accts

\* Builder.WriteOperatorJWT.
WriteOperatorJWT(b, operatorJWT) ==
    LET w == WriteFile(b, GetOperatorJWTPath(b), operatorJWT)
    IN  IF w.err # ""
        THEN [err |-> "failed to write operator JWT", builder |-> b]
        ELSE w

\* Builder.WriteAccountJWT.
WriteAccountJWT(b, accountID, accountJWT) ==
    LET w == WriteFile(b, GetAccountJWTPath(b, accountID), accountJWT)
    IN  IF w.err # ""
        THEN [err |-> "failed to write account JWT", builder |-> b]
        ELSE w

\* Builder.DeleteAccountJWT: nothing to do when the file does not exist.
DeleteAccountJWT(b, accountID) ==
    IF ~Exists(b, GetAccountJWTPath(b, accountID))
    THEN [err |-> "", builder |-> b]
    ELSE Remove(b, GetAccountJWTPath(b, accountID))

\* ------------------------------------------------ NatsAuthConfig reconciler
OperatorSeedRefName == "ext-operator-seed"
ServerAuthConfigKey == "auth.conf"

\* getOrCreateOperatorSeed: the referenced seed when one is declared;
\* otherwise a fresh seed is generated and Create()d, and when the Secret
\* already exists the candidate is dropped and the stored seed returned.
getOrCreateOperatorSeed ==
    IF cfgSpec.operatorSeedSecret
    THEN IF extSecrets[OperatorSeedRefName] = MissingSecret
         THEN [err |-> "failed to get operator seed secret", seed |-> NoValue,
               created |-> FALSE]
         ELSE [err |-> "", seed |-> extSecrets[OperatorSeedRefName],
               created |-> FALSE]
    ELSE IF opSeedSecret = NoValue
         THEN [err |-> "", seed |-> FreshSeed(CfgName), created |-> TRUE]
         ELSE [err |-> "", seed |-> opSeedSecret, created |-> FALSE]

\* collectAccountJWTs: the accounts listed in the config's own namespace
\* whose authConfigRef.name is the config's name, whose Secret exists and
\* holds account.jwt, and whose status has an account id.
collectAccountJWTs ==
    {a \in Accounts :
        /\ acctMeta[a].phase # "absent"
        /\ acctSpec[a].namespace = CfgNs
        /\ acctSpec[a].authConfigRef.name = CfgName
        /\ acctSecret[a] # NoValue
        /\ acctSecret[a].jwt # NoValue
        /\ acctStatus[a].accountID # NoValue}

\* reconcileJWTMode: operator seed, operator token, the collected account
\* tokens keyed by account name (assigned after the "operator" entry), the
\* Secret created or its Data replaced, status filled in.
reconcileJWTMode ==
    LET sd == getOrCreateOperatorSeed
        operatorMgr == NewOperatorManager(sd.seed, keyGen[CfgName] + 1)
        accounts == collectAccountJWTs
        secretData == [k \in {"operator"} \cup accounts |->
                          IF k \in accounts THEN acctSecret[k].jwt
                          ELSE OperatorJWT(operatorMgr.kp,
                                           cfgSpec.operatorName)]
        seedWrites == IF sd.created THEN {"operator-seed"} ELSE {}
    IN  IF sd.err # ""
        THEN [err |-> sd.err, target |-> target, opSeed |-> opSeedSecret,
              operatorPubKey |-> cfgStatus.operatorPubKey,
              resolverReady |-> cfgStatus.resolverReady, fresh |-> FALSE,
              writes |-> {}]
        ELSE IF operatorMgr.err # ""
        THEN [err |-> "failed to create operator manager", target |-> target,
              opSeed |-> IF sd.created THEN sd.seed ELSE opSeedSecret,
              operatorPubKey |-> cfgStatus.operatorPubKey,
              resolverReady |-> cfgStatus.resolverReady,
              fresh |-> sd.created, writes |-> seedWrites]
        ELSE [err |-> "", target |-> secretData,
              opSeed |-> IF sd.created THEN sd.seed ELSE opSeedSecret,
              operatorPubKey |-> GetPublicKey(operatorMgr),
              resolverReady |-> TRUE,
              fresh |-> sd.created \/ Len(sd.seed) = 0,
              writes |-> seedWrites \cup {"target"}]

\* reconcileTokenMode: the flat dialect is rendered from an empty user list
\* and written under the configured key.
reconcileTokenMode ==
    [err |-> "",
     target |-> WriteResolverConfig(target, ServerAuthConfigKey,
                                    RenderTokenAuthConf(<<>>)),
     opSeed |-> opSeedSecret,
     operatorPubKey |-> cfgStatus.operatorPubKey, resolverReady |-> TRUE,
     fresh |-> FALSE, writes |-> {"target"}]

\* Mutant of validateSpec: every spec is accepted.
validateSpecAccepts == ""

\* validateSpec: jwt and mixed mode need the jwt block.
validateSpec ==
    IF cfgSpec.mode \in {"jwt", "mixed"} /\ ~cfgSpec.jwt
    THEN "JWT configuration is required for JWT or mixed mode" ELSE ""

\* NatsAuthConfigReconciler.handleDeletion: the finalizer is removed, which
\* lets the object go.
cfgHandleDeletion ==
    /\ cfgMeta.phase = "deleting"
    /\ cfgMeta' = [phase |-> "absent", finalizer |-> FALSE]
    /\ last' = [op |-> "ReconcileAuthConfig", id |-> CfgName, err |-> "",
                writes |-> {}]
    /\ UNCHANGED <<cfgStatus, cfgDirty, opSeedSecret, target, keyGen>>

\* NatsAuthConfigReconciler.Reconcile of a live config.
cfgReconcileLive ==
    /\ cfgMeta.phase = "live"
    /\ cfgMeta' = [cfgMeta EXCEPT !.finalizer = TRUE]
    /\ cfgSpec.operatorSeedSecret \/ opSeedSecret # NoValue
                                  \/ keyGen[CfgName] < MaxGen
    /\ IF validateSpec # ""
       THEN /\ cfgStatus' = [cfgStatus EXCEPT !.ready = "False",
                                              !.reason = "InvalidSpec"]
            /\ UNCHANGED <<opSeedSecret, target, keyGen>>
            /\ last' = [op |-> "ReconcileAuthConfig", id |-> CfgName,
                        err |-> "", writes |-> {}]
       ELSE LET r == IF cfgSpec.mode = "token" THEN reconcileTokenMode
                     ELSE reconcileJWTMode
            IN  /\ r.fresh => keyGen[CfgName] < MaxGen
                /\ target' = r.target
                /\ opSeedSecret' = r.opSeed
                /\ keyGen' = IF r.fresh
                             THEN [keyGen EXCEPT ![CfgName] = @ + 1]
                             ELSE keyGen
                /\ cfgStatus' =
                     [operatorPubKey |-> r.operatorPubKey,
                      resolverReady |-> r.resolverReady,
                      ready |-> IF r.err = "" THEN "True" ELSE "False",
                      reason |-> IF r.err = "" THEN "ReconcileSuccess"
                                 ELSE "ReconcileError"]
                /\ last' = [op |-> "ReconcileAuthConfig", id |-> CfgName,
                            err |-> r.err, writes |-> r.writes]
    /\ cfgDirty' = FALSE

\* NatsAuthConfigReconciler.Reconcile.
ReconcileAuthConfig ==
    /\ cfgHandleDeletion \/ cfgReconcileLive
    /\ UNCHANGED <<cfgSpec, extSecrets, acctVars, userVars, disruptions, now>>

\* Another actor wrote the object between the reconciler's read and its
\* Status().Update, which therefore fails with a conflict.
StatusConflict ==
    /\ disruptions < MaxDisruptions
    /\ disruptions' = disruptions + 1

\* The API server rejects the Create or Update of a Secret.
WriteRejected ==
    /\ disruptions < MaxDisruptions
    /\ disruptions' = disruptions + 1

\* --------------------------------------------------- NatsAccount reconciler
AccountSeedRefName == "ext-account-seed"

\* NatsAccountReconciler.getAuthConfig: the reference resolves by name in
\* the referenced namespace, which defaults to the account's own.
acctGetAuthConfig(a) ==
    LET ref == acctSpec[a].authConfigRef
        namespace == IF ref.namespace = "" THEN acctSpec[a].namespace
                     ELSE ref.namespace
    IN  cfgMeta.phase # "absent" /\ namespace = CfgNs /\ ref.name = CfgName

\* getOrCreateAccountSeed: the referenced seed when existingSeedSecret is
\* declared, otherwise a newly generated account seed.
getOrCreateAccountSeed(a) ==
    IF acctSpec[a].existingSeedSecret
    THEN IF extSecrets[AccountSeedRefName] = MissingSecret
         THEN [err |-> "failed to get account seed secret", seed |-> NoValue,
               fresh |-> FALSE]
         ELSE [err |-> "", seed |-> extSecrets[AccountSeedRefName],
               fresh |-> FALSE]
    ELSE [err |-> "", seed |-> FreshSeed(a), fresh |-> TRUE]

\* Mutant of getOperatorSeed: a missing operator seed is not an error, a
\* keypair is made up instead.
getOperatorSeedOrGenerate ==
    IF cfgSpec.operatorSeedSecret
    THEN IF extSecrets[OperatorSeedRefName] = MissingSecret
         THEN [err |-> "", seed |-> GeneratedSeed("operator", 1)]
         ELSE [err |-> "", seed |-> extSecrets[OperatorSeedRefName]]
    ELSE IF opSeedSecret = NoValue
         THEN [err |-> "", seed |-> GeneratedSeed("operator", 1)]
         ELSE [err |-> "", seed |-> opSeedSecret]

\* Mutant of getOperatorSeed: spec.jwt.operatorSeedSecret is ignored and the
\* generated <cfg>-operator-seed Secret is always the one read.
getOperatorSeedIgnoresRef ==
    IF ~cfgSpec.jwt
    THEN [err |-> "panic", seed |-> NoValue]
    ELSE IF opSeedSecret = NoValue
    THEN [err |-> "failed to get operator seed secret", seed |-> NoValue]
    ELSE [err |-> "", seed |-> opSeedSecret]

\* NatsAccountReconciler.getOperatorSeed: the referenced operator seed, or
\* the generated <cfg>-operator-seed Secret. Reading spec.jwt when the jwt
\* block is nil is a nil dereference.
getOperatorSeed ==
    IF ~cfgSpec.jwt
    THEN [err |-> "panic", seed |-> NoValue]
    ELSE IF cfgSpec.operatorSeedSecret
    THEN IF extSecrets[OperatorSeedRefName] = MissingSecret
         THEN [err |-> "failed to get operator seed secret",
               seed |-> NoValue]
         ELSE [err |-> "", seed |-> extSecrets[OperatorSeedRefName]]
    ELSE IF opSeedSecret = NoValue
         THEN [err |-> "failed to get operator seed secret",
               seed |-> NoValue]
         ELSE [err |-> "", seed |-> opSeedSecret]

\* Mutant of acctSkipRegeneration: the guard is missing and every reconcile
\* regenerates.
acctNeverSkips(a) == FALSE

\* The guard at the head of reconcileAccount: the Secret exists, status has
\* an account id, the Secret holds a token and a seed, and the seed derives
\* the account id in status.
acctSkipRegeneration(a) ==
    /\ acctSecret[a] # NoValue
    /\ acctStatus[a].accountID # NoValue
    /\ acctSecret[a].jwt # NoValue
    /\ acctSecret[a].seed # NoValue
    /\ ValidSeed(acctSecret[a].seed)
    /\ PublicKey(acctSecret[a].seed) = acctStatus[a].accountID

\* reconcileAccount: skip when the guard holds; otherwise obtain the seed,
\* build the claims, sign them with the operator seed, create or update the
\* Secret, set the status fields and trigger the NatsAuthConfig.
reconcileAccount(a) ==
    LET keep == [err |-> "", secret |-> acctSecret[a],
                 accountID |-> acctStatus[a].accountID,
                 jwtSecretRef |-> acctStatus[a].jwtSecretRef,
                 trigger |-> FALSE, fresh |-> FALSE, writes |-> {}]
        sd == getOrCreateAccountSeed(a)
        accountMgr == NewAccountManager(sd.seed, keyGen[a] + 1)
        op == getOperatorSeed
        operatorMgr == NewOperatorManager(op.seed, keyGen[a] + 1)
        accountClaims == CreateAccountClaims(accountMgr.kp, a,
                             acctSpec[a].description, acctSpec[a].limits)
        accountJWT == SignAccountJWT(operatorMgr.kp, accountClaims)
    IN  IF acctSkipRegeneration(a) THEN keep
        ELSE IF sd.err # "" THEN [keep EXCEPT !.err = sd.err]
        ELSE IF accountMgr.err # ""
        THEN [keep EXCEPT !.err = "failed to create account manager"]
        ELSE IF op.err # "" THEN [keep EXCEPT !.err = op.err]
        ELSE IF operatorMgr.err # ""
        THEN [keep EXCEPT !.err = "failed to create operator manager"]
        ELSE [err |-> "",
              secret |-> [jwt |-> accountJWT, seed |-> sd.seed],
              accountID |-> GetPublicKey(accountMgr),
              jwtSecretRef |-> a,
              trigger |-> TRUE,
              fresh |-> sd.fresh \/ Len(sd.seed) = 0 \/ Len(op.seed) = 0,
              writes |-> {"account-jwt", "authconfig"}]

\* NatsAccountReconciler.handleDeletion: trigger the NatsAuthConfig when it
\* resolves, then remove the finalizer, which lets the object go.
acctHandleDeletion(a) ==
    /\ acctMeta[a].phase = "deleting"
    /\ acctMeta' = [acctMeta EXCEPT ![a] = [phase |-> "absent",
                                            finalizer |-> FALSE]]
    /\ cfgDirty' = (cfgDirty \/ acctGetAuthConfig(a))
    /\ last' = [op |-> "ReconcileAccount", id |-> a, err |-> "",
                writes |-> IF acctGetAuthConfig(a) THEN {"authconfig"} ELSE {}]
    /\ UNCHANGED <<acctSpec, acctStatus, acctSecret, keyGen>>

\* NatsAccountReconciler.Reconcile of a live account. statusOK is the
\* outcome of the final Status().Update (FALSE: a conflict, status is not
\* persisted).
acctReconcileLive(a, statusOK) ==
    /\ acctMeta[a].phase = "live"
    /\ acctMeta' = [acctMeta EXCEPT ![a].finalizer = TRUE]
    /\ IF ~acctGetAuthConfig(a) \/ cfgSpec.mode \notin {"jwt", "mixed"}
       THEN LET reason == IF ~acctGetAuthConfig(a) THEN "AuthConfigNotFound"
                          ELSE "InvalidAuthMode"
            IN  /\ acctStatus' = IF statusOK
                      THEN [acctStatus EXCEPT ![a].ready = "False",
                                              ![a].reason = reason]
                      ELSE acctStatus
                /\ last' = [op |-> "ReconcileAccount", id |-> a,
                            err |-> IF statusOK THEN reason
                                    ELSE "status update conflict",
                            writes |-> {}]
                /\ UNCHANGED <<acctSecret, cfgDirty, keyGen>>
       ELSE LET r == reconcileAccount(a)
            IN  IF r.err = "panic"
                THEN /\ last' = [op |-> "ReconcileAccount", id |-> a,
                                 err |-> "panic", writes |-> {}]
                     /\ UNCHANGED <<acctStatus, acctSecret, cfgDirty, keyGen>>
                ELSE /\ r.fresh => keyGen[a] < MaxGen
                     /\ acctSecret' = [acctSecret EXCEPT ![a] = r.secret]
                     /\ keyGen' = IF r.fresh
                                  THEN [keyGen EXCEPT ![a] = @ + 1]
                                  ELSE keyGen
                     /\ cfgDirty' = (cfgDirty \/ r.trigger)
                     /\ acctStatus' = IF statusOK
                          THEN [acctStatus EXCEPT ![a] =
                                  [accountID |-> r.accountID,
                                   jwtSecretRef |-> r.jwtSecretRef,
                                   ready |-> IF r.err = "" THEN "True"
                                             ELSE "False",
                                   reason |-> IF r.err = ""
                                              THEN "ReconcileSuccess"
                                              ELSE "ReconcileError"]]
                          ELSE acctStatus
                     /\ last' = [op |-> "ReconcileAccount", id |-> a,
                                 err |-> IF statusOK THEN r.err
                                         ELSE "status update conflict",
                                 writes |-> r.writes]
    /\ UNCHANGED acctSpec

\* NatsAccountReconciler.Reconcile of a live account whose record is
\* written while the Update of the NatsAuthConfig in
\* triggerAuthConfigReconcile fails: reconcileAccount returns the error
\* after it has set the status fields, and Reconcile persists them with
\* Ready=False.
acctReconcileTriggerFails(a) ==
    /\ acctMeta[a].phase = "live"
    /\ acctMeta' = [acctMeta EXCEPT ![a].finalizer = TRUE]
    /\ acctGetAuthConfig(a)
    /\ cfgSpec.mode \in {"jwt", "mixed"}
    /\ LET r == reconcileAccount(a)
       IN  /\ r.err = ""
           /\ r.trigger
           /\ r.fresh => keyGen[a] < MaxGen
           /\ acctSecret' = [acctSecret EXCEPT ![a] = r.secret]
           /\ keyGen' = IF r.fresh THEN [keyGen EXCEPT ![a] = @ + 1]
                        ELSE keyGen
           /\ acctStatus' = [acctStatus EXCEPT ![a] =
                                [accountID |-> r.accountID,
                                 jwtSecretRef |-> r.jwtSecretRef,
                                 ready |-> "False",
                                 reason |-> "ReconcileError"]]
           /\ last' = [op |-> "ReconcileAccount", id |-> a,
                       err |-> "failed to trigger auth config reconciliation",
                       writes |-> {"account-jwt"}]
    /\ UNCHANGED <<acctSpec, cfgDirty>>

\* NatsAccountReconciler.Reconcile of a live account whose Create or
\* Update of the <account>-account-jwt Secret fails: reconcileAccount
\* returns before it touches the status fields, the seed it generated is
\* lost, and Reconcile records Ready=False.
acctReconcileWriteFails(a) ==
    /\ acctMeta[a].phase = "live"
    /\ acctMeta' = [acctMeta EXCEPT ![a].finalizer = TRUE]
    /\ acctGetAuthConfig(a)
    /\ cfgSpec.mode \in {"jwt", "mixed"}
    /\ LET r == reconcileAccount(a)
       IN  /\ r.err = ""
           /\ "account-jwt" \in r.writes
           /\ r.fresh => keyGen[a] < MaxGen
           /\ keyGen' = IF r.fresh THEN [keyGen EXCEPT ![a] = @ + 1]
                        ELSE keyGen
           /\ acctStatus' = [acctStatus EXCEPT ![a].ready = "False",
                                               ![a].reason = "ReconcileError"]
           /\ last' = [op |-> "ReconcileAccount", id |-> a,
                       err |-> "failed to write JWT secret", writes |-> {}]
    /\ UNCHANGED <<acctSpec, acctSecret, cfgDirty>>

ReconcileAccount(a) ==
    /\ \/ acctHandleDeletion(a) /\ UNCHANGED disruptions
       \/ acctReconcileLive(a, TRUE) /\ UNCHANGED disruptions
       \/ acctReconcileLive(a, FALSE) /\ StatusConflict
       \/ acctReconcileTriggerFails(a) /\ StatusConflict
       \/ acctReconcileWriteFails(a) /\ WriteRejected
    /\ UNCHANGED <<cfgMeta, cfgSpec, cfgStatus, opSeedSecret, extSecrets,
                   target, userVars, workers, now>>

\* ------------------------------------------------------ NatsUser reconciler
UserSeedRefName == "ext-user-seed"
PasswordRefName == "ext-password"
NatsURL == "nats://nats:4222"

\* The keys of a <user>-user-creds Secret; a key the Secret lacks is NoValue.
NoUserData ==
    [creds |-> NoValue, jwt |-> NoValue, seed |-> NoValue,
     username |-> NoValue, password |-> NoValue, url |-> NoValue]

\* NatsUserReconciler.getAuthConfig.
userGetAuthConfig(u) ==
    LET ref == userSpec[u].authConfigRef
        namespace == IF ref.namespace = "" THEN userSpec[u].namespace
                     ELSE ref.namespace
    IN  cfgMeta.phase # "absent" /\ namespace = CfgNs /\ ref.name = CfgName

\* NatsUserReconciler.getAccount: the NatsAccount named by accountRef in the
\* referenced namespace (default: the user's own), or "" when not found.
getAccount(u) ==
    LET ref == userSpec[u].accountRef
        namespace == IF ref.namespace = "" THEN userSpec[u].namespace
                     ELSE ref.namespace
    IN  IF /\ ref.name \in Accounts
           /\ acctMeta[ref.name].phase # "absent"
           /\ acctSpec[ref.name].namespace = namespace
        THEN ref.name ELSE ""

\* getOrCreateUserSeed.
getOrCreateUserSeed(u) ==
    IF userSpec[u].existingSeedSecret
    THEN IF extSecrets[UserSeedRefName] = MissingSecret
         THEN [err |-> "failed to get user seed secret", seed |-> NoValue,
               fresh |-> FALSE]
         ELSE [err |-> "", seed |-> extSecrets[UserSeedRefName],
               fresh |-> FALSE]
    ELSE [err |-> "", seed |-> FreshSeed(u), fresh |-> TRUE]

\* NatsUserReconciler.getAccountSeed: account.seed of the Secret the
\* account's status.jwtSecretRef names. The Secret always has the key (it
\* is written with it), possibly with no content.
getAccountSeed(account) ==
    IF acctStatus[account].jwtSecretRef = ""
    THEN [err |-> "account JWT secret not ready", seed |-> NoValue]
    ELSE IF acctSecret[acctStatus[account].jwtSecretRef] = NoValue
    THEN [err |-> "failed to get account JWT secret", seed |-> NoValue]
    ELSE [err |-> "",
          seed |-> acctSecret[acctStatus[account].jwtSecretRef].seed]

\* The guard at the head of reconcileJWTUser's credential handling: the
\* Secret exists, status has a public key and the Secret holds user.creds.
userSkipRegeneration(u) ==
    /\ userSecret[u] # NoValue
    /\ userStatus[u].publicKey # NoValue
    /\ userSecret[u].creds # NoValue

\* reconcileJWTUser.
reconcileJWTUser(u) ==
    LET keep == [err |-> "", secret |-> userSecret[u],
                 publicKey |-> userStatus[u].publicKey,
                 secretRef |-> userStatus[u].secretRef,
                 fresh |-> FALSE, writes |-> {}]
        account == getAccount(u)
        sd == getOrCreateUserSeed(u)
        userMgr == NewUserManager(sd.seed, keyGen[u] + 1)
        userName == IF userSpec[u].username # NoValue
                    THEN userSpec[u].username ELSE <<u>>
        userClaims == CreateUserClaims(userMgr.kp, userName,
                                       userSpec[u].permissions)
        as == getAccountSeed(account)
        accountMgr == NewAccountManager(as.seed, keyGen[u] + 1)
        userJWT == SignUserJWT(accountMgr.kp, userClaims)
    IN  IF userSpec[u].accountRef = NoValue
        THEN [keep EXCEPT !.err = "accountRef is required for JWT mode"]
        ELSE IF account = ""
        THEN [keep EXCEPT !.err = "failed to get NatsAccount"]
        ELSE IF acctStatus[account].accountID = NoValue
        THEN [keep EXCEPT !.err = "NatsAccount is not ready yet"]
        ELSE IF userSkipRegeneration(u) THEN keep
        ELSE IF sd.err # "" THEN [keep EXCEPT !.err = sd.err]
        ELSE IF userMgr.err # ""
        THEN [keep EXCEPT !.err = "failed to create user manager"]
        ELSE IF as.err # "" THEN [keep EXCEPT !.err = as.err]
        ELSE IF accountMgr.err # ""
        THEN [keep EXCEPT !.err = "failed to create account manager"]
        ELSE [err |-> "",
              secret |-> [creds |-> GenerateCredsFile(userJWT, sd.seed),
                          jwt |-> userJWT, seed |-> sd.seed,
                          username |-> NoValue, password |-> NoValue,
                          url |-> NatsURL],
              publicKey |-> GetPublicKey(userMgr),
              secretRef |-> u,
              fresh |-> sd.fresh \/ Len(sd.seed) = 0 \/ Len(as.seed) = 0,
              writes |-> {"user-creds"}]

\* token.GenerateUsername / token.GeneratePassword: fresh random text.
GenerateUsername(prefix) == <<"user", prefix, keyGen[prefix] + 1>>
GeneratePassword(u) == <<"password", u, keyGen[u] + 1>>

\* reconcileTokenUser: username declared or generated, password generated
\* or read from the referenced Secret; the Secret is created, or updated
\* when its USERNAME or PASSWORD differs from the values just determined.
reconcileTokenUser(u) ==
    LET keep == [err |-> "", secret |-> userSecret[u],
                 publicKey |-> userStatus[u].publicKey,
                 secretRef |-> userStatus[u].secretRef,
                 fresh |-> FALSE, writes |-> {}]
        genName == userSpec[u].username = NoValue
        username == IF genName THEN GenerateUsername(u)
                    ELSE userSpec[u].username
        pf == userSpec[u].passwordFrom
        genPw == pf = NoValue \/ pf.generate
        fromRef == pf # NoValue /\ ~pf.generate /\ pf.secretRef
        password == IF genPw THEN GeneratePassword(u)
                    ELSE IF fromRef THEN extSecrets[PasswordRefName]
                    ELSE NoValue
        existing == userSecret[u]
        differs == existing.username # username
                   \/ existing.password # password
    IN  IF fromRef /\ extSecrets[PasswordRefName] = MissingSecret
        THEN [keep EXCEPT !.err = "failed to get password secret"]
        ELSE IF existing = NoValue
        THEN [keep EXCEPT
                !.secret = [NoUserData EXCEPT !.username = username,
                                              !.password = password,
                                              !.url = NatsURL],
                !.secretRef = u, !.fresh = genName \/ genPw,
                !.writes = {"user-creds"}]
        ELSE IF differs
        THEN [keep EXCEPT
                !.secret = [existing EXCEPT !.username = username,
                                            !.password = password,
                                            !.url = NatsURL],
                !.secretRef = u, !.fresh = genName \/ genPw,
                !.writes = {"user-creds"}]
        ELSE [keep EXCEPT !.secretRef = u]

\* NatsUserReconciler.Reconcile, "Determine auth type": the user's own, or
\* the config's mode converted to an auth type when it is "inherit".
resolveAuthType(authType, mode) ==
    IF authType = "inherit" THEN mode ELSE authType

\* NatsUserReconciler.Reconcile, "Reconcile based on auth type": the
\* procedure the switch selects.
reconcileProcedure(authType) ==
    IF authType = "jwt" THEN "reconcileJWTUser"
    ELSE IF authType = "token" THEN "reconcileTokenUser"
    ELSE "unsupported auth type"

\* The auth type a user is reconciled under.
userAuthType(u) == resolveAuthType(userSpec[u].authType, cfgSpec.mode)

\* NatsUserReconciler.handleDeletion.
userHandleDeletion(u) ==
    /\ userMeta[u].phase = "deleting"
    /\ userMeta' = [userMeta EXCEPT ![u] = [phase |-> "absent",
                                            finalizer |-> FALSE]]
    /\ last' = [op |-> "ReconcileUser", id |-> u, err |-> "", writes |-> {}]
    /\ UNCHANGED <<userSpec, userStatus, userSecret, keyGen>>

\* NatsUserReconciler.Reconcile of a live user. statusOK is the outcome of
\* the final Status().Update.
userReconcileLive(u, statusOK) ==
    /\ userMeta[u].phase = "live"
    /\ userMeta' = [userMeta EXCEPT ![u].finalizer = TRUE]
    /\ IF ~userGetAuthConfig(u)
       THEN /\ userStatus' = IF statusOK
                 THEN [userStatus EXCEPT ![u].state = "Error"]
                 ELSE userStatus
            /\ last' = [op |-> "ReconcileUser", id |-> u,
                        err |-> IF statusOK THEN "AuthConfigNotFound"
                                ELSE "status update conflict",
                        writes |-> {}]
            /\ UNCHANGED <<userSecret, keyGen>>
       ELSE LET r == IF userAuthType(u) = "jwt" THEN reconcileJWTUser(u)
                     ELSE IF userAuthType(u) = "token"
                     THEN reconcileTokenUser(u)
                     ELSE [err |-> "unsupported auth type",
                           secret |-> userSecret[u],
                           publicKey |-> userStatus[u].publicKey,
                           secretRef |-> userStatus[u].secretRef,
                           fresh |-> FALSE, writes |-> {}]
            IN  /\ r.fresh => keyGen[u] < MaxGen
                /\ userSecret' = [userSecret EXCEPT ![u] = r.secret]
                /\ keyGen' = IF r.fresh THEN [keyGen EXCEPT ![u] = @ + 1]
                             ELSE keyGen
                /\ userStatus' = IF statusOK
                     THEN [userStatus EXCEPT ![u] =
                             [state |-> IF r.err = "" THEN "Ready"
                                        ELSE "Error",
                              ready |-> IF r.err = "" THEN "True"
                                        ELSE "False",
                              publicKey |-> r.publicKey,
                              secretRef |-> r.secretRef]]
                     ELSE userStatus
                /\ last' = [op |-> "ReconcileUser", id |-> u,
                            err |-> IF statusOK THEN r.err
                                    ELSE "status update conflict",
                            writes |-> r.writes]
    /\ UNCHANGED userSpec

\* NatsUserReconciler.Reconcile of a live user whose Create or Update of
\* the <user>-user-creds Secret fails: the reconcile function returns before
\* it touches the status fields, and Reconcile records State=Error and
\* Ready=False.
userReconcileWriteFails(u) ==
    /\ userMeta[u].phase = "live"
    /\ userMeta' = [userMeta EXCEPT ![u].finalizer = TRUE]
    /\ userGetAuthConfig(u)
    /\ userAuthType(u) \in {"jwt", "token"}
    /\ LET r == IF userAuthType(u) = "jwt" THEN reconcileJWTUser(u)
                ELSE reconcileTokenUser(u)
       IN  /\ r.err = ""
           /\ "user-creds" \in r.writes
           /\ r.fresh => keyGen[u] < MaxGen
           /\ keyGen' = IF r.fresh THEN [keyGen EXCEPT ![u] = @ + 1]
                        ELSE keyGen
           /\ userStatus' = [userStatus EXCEPT ![u].state = "Error",
                                               ![u].ready = "False"]
           /\ last' = [op |-> "ReconcileUser", id |-> u,
                       err |-> "failed to write credentials secret",
                       writes |-> {}]
    /\ UNCHANGED <<userSpec, userSecret>>

ReconcileUser(u) ==
    /\ \/ userHandleDeletion(u) /\ UNCHANGED disruptions
       \/ userReconcileLive(u, TRUE) /\ UNCHANGED disruptions
       \/ userReconcileLive(u, FALSE) /\ StatusConflict
       \/ userReconcileWriteFails(u) /\ WriteRejected
    /\ UNCHANGED <<cfgVars, extSecrets, acctVars, now>>

\* ------------------------------------------------- the cluster's other actors
MaxTime == 2

\* A second of the wall clock passes.
Tick ==
    /\ now < MaxTime
    /\ now' = now + 1
    /\ last' = [op |-> "Tick", id |-> "", err |-> "", writes |-> {}]
    /\ UNCHANGED <<cfgVars, extSecrets, acctVars, userVars, keyGen,
                   disruptions>>

Disrupt ==
    /\ disruptions < MaxDisruptions
    /\ disruptions' = disruptions + 1

\* The owner edits spec.limits of an account (conn 100 -> 200).
UpdateAccountLimits(a) ==
    /\ Disrupt
    /\ acctMeta[a].phase = "live"
    /\ acctSpec[a].limits # NoValue
    /\ acctSpec[a].limits.conn = 100
    /\ acctSpec' = [acctSpec EXCEPT ![a].limits.conn = 200]
    /\ last' = [op |-> "UpdateAccountLimits", id |-> a, err |-> "",
                writes |-> {}]
    /\ UNCHANGED <<cfgVars, extSecrets, acctMeta, acctStatus, acctSecret,
                   userVars, workers, keyGen, now>>

\* kubectl delete secret <account>-account-jwt.
DeleteAccountSecret(a) ==
    /\ Disrupt
    /\ acctSecret[a] # NoValue
    /\ acctSecret' = [acctSecret EXCEPT ![a] = NoValue]
    /\ last' = [op |-> "DeleteAccountSecret", id |-> a, err |-> "",
                writes |-> {}]
    /\ UNCHANGED <<cfgVars, extSecrets, acctMeta, acctSpec, acctStatus,
                   userVars, workers, keyGen, now>>

\* The generated <cfg>-operator-seed Secret is deleted.
DeleteOperatorSeedSecret ==
    /\ Disrupt
    /\ opSeedSecret # NoValue
    /\ opSeedSecret' = NoValue
    /\ last' = [op |-> "DeleteOperatorSeedSecret", id |-> CfgName,
                err |-> "", writes |-> {}]
    /\ UNCHANGED <<cfgMeta, cfgSpec, cfgStatus, cfgDirty, target, extSecrets,
                   acctVars, userVars, keyGen, now>>

\* A Secret the declared state refers to is given new content.
ExtReferenced(n) ==
    \/ n = OperatorSeedRefName /\ cfgSpec.operatorSeedSecret
    \/ n = AccountSeedRefName /\ \E a \in Accounts :
           acctMeta[a].phase # "absent" /\ acctSpec[a].existingSeedSecret
    \/ n = UserSeedRefName /\ \E u \in Users :
           userMeta[u].phase # "absent" /\ userSpec[u].existingSeedSecret
    \/ n = PasswordRefName /\ \E u \in Users :
           /\ userMeta[u].phase # "absent"
           /\ userSpec[u].passwordFrom # NoValue
           /\ userSpec[u].passwordFrom.secretRef

RotateExternalSecret(n) ==
    /\ Disrupt
    /\ ExtReferenced(n)
    /\ extSecrets[n] = <<n, 1>>
    /\ extSecrets' = [extSecrets EXCEPT ![n] = <<n, 2>>]
    /\ last' = [op |-> "RotateExternalSecret", id |-> n, err |-> "",
                writes |-> {}]
    /\ UNCHANGED <<cfgVars, acctVars, userVars, keyGen, now>>

\* A Secret the declared state refers to is deleted.
DeleteExternalSecret(n) ==
    /\ Disrupt
    /\ ExtReferenced(n)
    /\ extSecrets[n] # MissingSecret
    /\ extSecrets' = [extSecrets EXCEPT ![n] = MissingSecret]
    /\ last' = [op |-> "DeleteExternalSecret", id |-> n, err |-> "",
                writes |-> {}]
    /\ UNCHANGED <<cfgVars, acctVars, userVars, keyGen, now>>

\* The owner edits the NatsAuthConfig and takes spec.jwt out.
RemoveJWTBlock ==
    /\ Disrupt
    /\ cfgMeta.phase = "live"
    /\ cfgSpec.jwt
    /\ cfgSpec' = [cfgSpec EXCEPT !.jwt = FALSE, !.operatorSeedSecret = FALSE]
    /\ last' = [op |-> "RemoveJWTBlock", id |-> CfgName, err |-> "",
                writes |-> {}]
    /\ UNCHANGED <<cfgMeta, cfgStatus, cfgDirty, opSeedSecret, target,
                   extSecrets, acctVars, userVars, keyGen, now>>

\* The owner edits the NatsAuthConfig and sets spec.mode to token.
SetModeToken ==
    /\ Disrupt
    /\ cfgMeta.phase = "live"
    /\ cfgSpec.mode # "token"
    /\ cfgSpec' = [cfgSpec EXCEPT !.mode = "token"]
    /\ last' = [op |-> "SetModeToken", id |-> CfgName, err |-> "",
                writes |-> {}]
    /\ UNCHANGED <<cfgMeta, cfgStatus, cfgDirty, opSeedSecret, target,
                   extSecrets, acctVars, userVars, keyGen, now>>

\* kubectl delete natsaccount: with a finalizer the object waits for
\* handleDeletion, without one it is gone at once.
DeleteAccount(a) ==
    /\ Disrupt
    /\ acctMeta[a].phase = "live"
    /\ acctMeta' = [acctMeta EXCEPT ![a].phase =
                       IF acctMeta[a].finalizer THEN "deleting" ELSE "absent"]
    /\ last' = [op |-> "DeleteAccount", id |-> a, err |-> "", writes |-> {}]
    /\ UNCHANGED <<cfgVars, extSecrets, acctSpec, acctStatus, acctSecret,
                   userVars, workers, keyGen, now>>

\* kubectl delete natsauthconfig: with a finalizer the object waits for
\* handleDeletion, without one it is gone at once.
DeleteAuthConfig ==
    /\ Disrupt
    /\ cfgMeta.phase = "live"
    /\ cfgMeta' = [cfgMeta EXCEPT !.phase =
                      IF cfgMeta.finalizer THEN "deleting" ELSE "absent"]
    /\ last' = [op |-> "DeleteAuthConfig", id |-> CfgName, err |-> "",
                writes |-> {}]
    /\ UNCHANGED <<cfgSpec, cfgStatus, cfgDirty, opSeedSecret, target,
                   extSecrets, acctVars, userVars, keyGen, now>>

\* The owner edits spec.permissions of a user.
NewPermissions ==
    [publishAllow |-> {"orders.>"}, publishDeny |-> {},
     subscribeAllow |-> {"_INBOX.>"}, subscribeDeny |-> {}]

UpdateUserPermissions(u) ==
    /\ Disrupt
    /\ userMeta[u].phase = "live"
    /\ userSpec[u].permissions # NewPermissions
    /\ userSpec' = [userSpec EXCEPT ![u].permissions = NewPermissions]
    /\ last' = [op |-> "UpdateUserPermissions", id |-> u, err |-> "",
                writes |-> {}]
    /\ UNCHANGED <<cfgVars, extSecrets, acctVars, userMeta, userStatus,
                   userSecret, keyGen, now>>

\* The owner edits spec.username of a user.
NewUsername == <<"renamed">>

UpdateUsername(u) ==
    /\ Disrupt
    /\ userMeta[u].phase = "live"
    /\ userSpec[u].username # NewUsername
    /\ userSpec' = [userSpec EXCEPT ![u].username = NewUsername]
    /\ last' = [op |-> "UpdateUsername", id |-> u, err |-> "",
                writes |-> {}]
    /\ UNCHANGED <<cfgVars, extSecrets, acctVars, userMeta, userStatus,
                   userSecret, keyGen, now>>

\* kubectl delete secret <user>-user-creds.
DeleteUserSecret(u) ==
    /\ Disrupt
    /\ userSecret[u] # NoValue
    /\ userSecret' = [userSecret EXCEPT ![u] = NoValue]
    /\ last' = [op |-> "DeleteUserSecret", id |-> u, err |-> "",
                writes |-> {}]
    /\ UNCHANGED <<cfgVars, extSecrets, acctVars, userMeta, userSpec,
                   userStatus, keyGen, now>>

\* kubectl delete natsuser.
DeleteUser(u) ==
    /\ Disrupt
    /\ userMeta[u].phase = "live"
    /\ userMeta' = [userMeta EXCEPT ![u].phase =
                       IF userMeta[u].finalizer THEN "deleting" ELSE "absent"]
    /\ last' = [op |-> "DeleteUser", id |-> u, err |-> "", writes |-> {}]
    /\ UNCHANGED <<cfgVars, extSecrets, acctVars, userSpec, userStatus,
                   userSecret, keyGen, now>>

\* ------------------------------------------------ reconciles in progress
\* Two invocations of NatsAccountReconciler.Reconcile for the one account
\* ConcAccount, each advancing one API call at a time. workers.ver is the
\* resourceVersion of the NatsAccount object.
Workers == {"w1", "w2"}
ConcAccount == "a1"

\* status and ver: the NatsAccount as the invocation read it; exists and
\* seen: the Secret as it read it; secret: the record it is about to write.
IdleWorker ==
    [pc |-> "idle", status |-> NoValue, ver |-> 0, exists |-> FALSE,
     seen |-> NoValue, secret |-> NoValue, err |-> "", wrote |-> FALSE]

\* No reconcile in progress.
NoWorkers == [ver |-> 0, w |-> [w \in Workers |-> IdleWorker]]

Worker(w) == workers.w[w]

concOtherVars == <<cfgMeta, cfgSpec, cfgStatus, opSeedSecret, extSecrets, target, acctSpec, userVars, disruptions, now>>

\* Reconcile up to reconcileAccount: r.Get of the NatsAccount, and the
\* Update that adds the finalizer when it is missing.
ConcGetAccount(w) ==
    /\ Worker(w).pc = "idle"
    /\ acctMeta[ConcAccount].phase = "live"
    /\ acctGetAuthConfig(ConcAccount)
    /\ cfgSpec.mode \in {"jwt", "mixed"}
    /\ acctMeta' = [acctMeta EXCEPT ![ConcAccount].finalizer = TRUE]
    /\ LET ver == IF acctMeta[ConcAccount].finalizer THEN workers.ver
                  ELSE workers.ver + 1
       IN  workers' = [ver |-> ver,
                       w |-> [workers.w EXCEPT ![w] =
                                [IdleWorker EXCEPT
                                    !.pc = "secret",
                                    !.status = acctStatus[ConcAccount],
                                    !.ver = ver]]]
    /\ last' = [op |-> "ConcGetAccount", id |-> w, err |-> "",
                writes |-> {}]
    /\ UNCHANGED <<concOtherVars, acctStatus, acctSecret, cfgDirty, keyGen>>

\* The guard at the head of reconcileAccount, on the status the invocation
\* holds and the Secret it has just read.
concSkipRegeneration(status, rec) ==
    /\ rec # NoValue
    /\ status.accountID # NoValue
    /\ rec.jwt # NoValue
    /\ rec.seed # NoValue
    /\ ValidSeed(rec.seed)
    /\ PublicKey(rec.seed) = status.accountID

\* reconcileAccount from the r.Get of the Secret to the signed token: the
\* guard, the account seed, the claims, the operator seed, the signature.
ConcReadSecret(w) ==
    /\ Worker(w).pc = "secret"
    /\ LET a == ConcAccount
           me == Worker(w)
           rec == acctSecret[a]
           sd == getOrCreateAccountSeed(a)
           accountMgr == NewAccountManager(sd.seed, keyGen[a] + 1)
           op == getOperatorSeed
           operatorMgr == NewOperatorManager(op.seed, keyGen[a] + 1)
           err == IF sd.err # "" THEN sd.err
                  ELSE IF accountMgr.err # ""
                  THEN "failed to create account manager"
                  ELSE IF op.err # "" THEN op.err
                  ELSE IF operatorMgr.err # ""
                  THEN "failed to create operator manager"
                  ELSE ""
           fresh == sd.fresh \/ Len(sd.seed) = 0 \/ Len(op.seed) = 0
           accountClaims == CreateAccountClaims(accountMgr.kp, a,
                                acctSpec[a].description, acctSpec[a].limits)
       IN  IF concSkipRegeneration(me.status, rec)
           THEN /\ workers' = [workers EXCEPT !.w[w].pc = "status"]
                /\ UNCHANGED keyGen
           ELSE IF err # ""
           THEN /\ workers' = [workers EXCEPT !.w[w].pc = "status",
                                               !.w[w].err = err]
                /\ UNCHANGED keyGen
           ELSE /\ fresh => keyGen[a] < MaxGen
                /\ keyGen' = IF fresh THEN [keyGen EXCEPT ![a] = @ + 1]
                             ELSE keyGen
                /\ workers' = [workers EXCEPT
                      !.w[w].pc = "write",
                      !.w[w].exists = (rec # NoValue),
                      !.w[w].seen = rec,
                      !.w[w].secret =
                          [jwt |-> SignAccountJWT(operatorMgr.kp,
                                                  accountClaims),
                           seed |-> sd.seed]]
    /\ last' = [op |-> "ConcReadSecret", id |-> w, err |-> "",
                writes |-> {}]
    /\ UNCHANGED <<concOtherVars, acctMeta, acctStatus, acctSecret, cfgDirty>>

\* reconcileAccount from the Create or Update of the Secret to its return:
\* Create fails when the Secret exists by now, Update fails when the Secret
\* is no longer the one read; after the write the status fields are set on
\* the object in hand and the NatsAuthConfig is triggered.
ConcWriteSecret(w) ==
    /\ Worker(w).pc = "write"
    /\ LET a == ConcAccount
           me == Worker(w)
           rejected == IF me.exists THEN acctSecret[a] # me.seen
                       ELSE acctSecret[a] # NoValue
       IN  IF rejected
           THEN /\ workers' = [workers EXCEPT
                      !.w[w].pc = "status",
                      !.w[w].err = "failed to write JWT secret"]
                /\ UNCHANGED <<acctSecret, cfgDirty>>
           ELSE /\ acctSecret' = [acctSecret EXCEPT ![a] = me.secret]
                /\ cfgDirty' = TRUE
                /\ workers' = [workers EXCEPT
                      !.w[w].pc = "status",
                      !.w[w].wrote = TRUE,
                      !.w[w].status.accountID = me.secret.jwt.sub,
                      !.w[w].status.jwtSecretRef = a]
    /\ last' = [op |-> "ConcWriteSecret", id |-> w, err |-> "",
                writes |-> {}]
    /\ UNCHANGED <<concOtherVars, acctMeta, acctStatus, keyGen>>

\* The end of Reconcile: the Ready condition is set and Status().Update is
\* called, which fails with a conflict when the object was updated after
\* this invocation read it.
ConcUpdateStatus(w) ==
    /\ Worker(w).pc = "status"
    /\ LET a == ConcAccount
           me == Worker(w)
       IN  IF workers.ver # me.ver
           THEN /\ workers' = [workers EXCEPT
                      !.w[w].pc = "done",
                      !.w[w].err = "status update conflict"]
                /\ UNCHANGED acctStatus
           ELSE /\ workers' = [workers EXCEPT !.ver = @ + 1,
                                               !.w[w].pc = "done"]
                /\ acctStatus' = [acctStatus EXCEPT ![a] =
                      [accountID |-> me.status.accountID,
                       jwtSecretRef |-> me.status.jwtSecretRef,
                       ready |-> IF me.err = "" THEN "True" ELSE "False",
                       reason |-> IF me.err = "" THEN "ReconcileSuccess"
                                  ELSE "ReconcileError"]]
    /\ last' = [op |-> "ConcUpdateStatus", id |-> w, err |-> "",
                writes |-> {}]
    /\ UNCHANGED <<concOtherVars, acctMeta, acctSecret, cfgDirty, keyGen>>

\* -------------------------------------------------- deletion in progress
\* NatsAccountReconciler.handleDeletion, one API call at a time. Phase
\* "triggered": the object carries its deletion timestamp and its finalizer,
\* and handleDeletion has passed triggerAuthConfigReconcile.
otherThanDeletion == <<cfgMeta, cfgSpec, cfgStatus, opSeedSecret, extSecrets, target, acctSpec, acctStatus, acctSecret, userVars, workers, keyGen, disruptions, now>>

\* handleDeletion up to the trigger: getAuthConfig, and when it resolves the
\* Update of the annotation on the NatsAuthConfig (its error is dropped).
handleDeletionTrigger(a) ==
    /\ acctMeta[a].phase = "deleting"
    /\ acctMeta[a].finalizer
    /\ acctMeta' = [acctMeta EXCEPT ![a].phase = "triggered"]
    /\ cfgDirty' = (cfgDirty \/ acctGetAuthConfig(a))
    /\ last' = [op |-> "handleDeletionTrigger", id |-> a, err |-> "",
                writes |-> IF acctGetAuthConfig(a) THEN {"authconfig"} ELSE {}]
    /\ UNCHANGED otherThanDeletion

\* handleDeletion from RemoveFinalizer to its return: the Update without the
\* finalizer lets the object go.
handleDeletionRemoveFinalizer(a) ==
    /\ acctMeta[a].phase = "triggered"
    /\ acctMeta' = [acctMeta EXCEPT ![a] = [phase |-> "absent",
                                            finalizer |-> FALSE]]
    /\ last' = [op |-> "handleDeletionRemoveFinalizer", id |-> a, err |-> "",
                writes |-> {}]
    /\ UNCHANGED <<otherThanDeletion, cfgDirty>>

\* ------------------------------------- getOrCreateOperatorSeed in progress
\* Executions of getOrCreateOperatorSeed for a NatsAuthConfig without a seed
\* reference, one API call at a time. Of an execution's record, secret is
\* the candidate seed it generated, seen the seed it returns, wrote whether
\* its Create stored the candidate.
otherThanOperatorSeed == <<cfgMeta, cfgSpec, cfgStatus, cfgDirty, extSecrets, target, acctMeta, acctSpec, acctStatus, acctSecret, userVars, now>>

\* Mutant of CreateSecret: the Secret is written whether it exists or not.
CreateSecretOverwrites(stored, candidate) ==
    [err |-> "", stored |-> candidate]

\* r.Create of the Secret <cfg>-operator-seed: it stores the candidate when
\* no such Secret exists and fails with AlreadyExists otherwise.
CreateSecret(stored, candidate) ==
    IF stored = NoValue
    THEN [err |-> "", stored |-> candidate]
    ELSE [err |-> "already exists", stored |-> stored]

\* NewOperatorManager(nil) and GetSeed: a candidate keypair is generated.
OperatorSeedGenerate(w) ==
    /\ Worker(w).pc \in {"idle", "done"}
    /\ cfgMeta.phase = "live"
    /\ ~cfgSpec.operatorSeedSecret
    /\ keyGen[CfgName] < MaxGen
    /\ keyGen' = [keyGen EXCEPT ![CfgName] = @ + 1]
    /\ workers' = [workers EXCEPT
          !.w[w] = [IdleWorker EXCEPT !.pc = "create",
                                      !.secret = FreshSeed(CfgName)]]
    /\ last' = [op |-> "OperatorSeedGenerate", id |-> w, err |-> "",
                writes |-> {}]
    /\ UNCHANGED <<otherThanOperatorSeed, opSeedSecret, disruptions>>

\* r.Create: on success the candidate is returned; on AlreadyExists the
\* execution goes on to read the Secret.
OperatorSeedCreate(w) ==
    /\ Worker(w).pc = "create"
    /\ LET c == CreateSecret(opSeedSecret, Worker(w).secret)
       IN  /\ opSeedSecret' = c.stored
           /\ workers' = IF c.err = ""
                 THEN [workers EXCEPT !.w[w].pc = "done",
                                      !.w[w].wrote = TRUE,
                                      !.w[w].seen = Worker(w).secret]
                 ELSE [workers EXCEPT !.w[w].pc = "get"]
           /\ last' = [op |-> "OperatorSeedCreate", id |-> w, err |-> "",
                       writes |-> IF c.err = "" THEN {"operator-seed"}
                                  ELSE {}]
    /\ UNCHANGED <<otherThanOperatorSeed, keyGen, disruptions>>

\* r.Get after AlreadyExists: the stored seed is returned and the candidate
\* dropped; an error when the Secret is gone by now.
OperatorSeedGet(w) ==
    /\ Worker(w).pc = "get"
    /\ workers' = IF opSeedSecret = NoValue
          THEN [workers EXCEPT !.w[w].pc = "done",
                               !.w[w].err = "not found"]
          ELSE [workers EXCEPT !.w[w].pc = "done",
                               !.w[w].seen = opSeedSecret]
    /\ last' = [op |-> "OperatorSeedGet", id |-> w, err |-> "",
                writes |-> {}]
    /\ UNCHANGED <<otherThanOperatorSeed, opSeedSecret, keyGen, disruptions>>

\* The generated <cfg>-operator-seed Secret is deleted while executions are
\* in progress.
OperatorSeedDeleted ==
    /\ DeleteOperatorSeedSecret
    /\ UNCHANGED workers

\* ------------------------------------------------------------ declared state
ExtNames == {OperatorSeedRefName, AccountSeedRefName, UserSeedRefName,
             PasswordRefName}

AccountDecl(a, present, existingSeed) ==
    [meta |-> [phase |-> IF present THEN "live" ELSE "absent",
               finalizer |-> FALSE],
     spec |-> [namespace |-> IF a = "a3" THEN OtherNs ELSE CfgNs,
               authConfigRef |-> [name |-> CfgName,
                                  namespace |-> IF a = "a3" THEN CfgNs ELSE ""],
               description |-> "tenant",
               limits |-> IF a = "a1" THEN AccountLimits([conn |-> 100])
                          ELSE NoValue,
               existingSeedSecret |-> existingSeed]]

UserDecl(u, present, authType, accountRef, username, passwordFrom, seedRef) ==
    [meta |-> [phase |-> IF present THEN "live" ELSE "absent",
               finalizer |-> FALSE],
     spec |-> [namespace |-> CfgNs,
               authConfigRef |-> [name |-> CfgName, namespace |-> ""],
               authType |-> authType,
               accountRef |-> accountRef,
               username |-> username,
               passwordFrom |-> passwordFrom,
               permissions |-> NoValue,
               existingSeedSecret |-> seedRef]]

NoUser(u) == UserDecl(u, FALSE, "inherit", NoValue, NoValue, NoValue, FALSE)
RefA1 == [name |-> "a1", namespace |-> ""]

\* The declared resources of a deployment: the config, its accounts and
\* its users.
Scenarios == {
    \* hierarchical mode, generated operator seed, an account named
    \* "operator" and an account in another namespace
    [cfg |-> [mode |-> "jwt", jwt |-> TRUE, operatorSeedSecret |-> FALSE,
              operatorName |-> "NATS Operator"],
     accts |-> [a \in Accounts |-> AccountDecl(a, a # "a1", FALSE)],
     users |-> [u \in Users |-> NoUser(u)]],
    \* hierarchical mode, referenced operator seed, one account, one user
    [cfg |-> [mode |-> "jwt", jwt |-> TRUE, operatorSeedSecret |-> TRUE,
              operatorName |-> "NATS Operator"],
     accts |-> [a \in Accounts |-> AccountDecl(a, a = "a1", FALSE)],
     users |-> [u \in Users |->
                  IF u = "u1"
                  THEN UserDecl(u, TRUE, "jwt", RefA1, NoValue, NoValue, FALSE)
                  ELSE NoUser(u)]],
    \* mixed mode, referenced account and user seeds
    [cfg |-> [mode |-> "mixed", jwt |-> TRUE, operatorSeedSecret |-> FALSE,
              operatorName |-> "NATS Operator"],
     accts |-> [a \in Accounts |-> AccountDecl(a, a = "a1", TRUE)],
     users |-> [u \in Users |->
                  IF u = "u1"
                  THEN UserDecl(u, TRUE, "jwt", RefA1, NoValue, NoValue, TRUE)
                  ELSE UserDecl(u, TRUE, "inherit", RefA1, NoValue, NoValue,
                                FALSE)]],
    \* flat mode, two users
    [cfg |-> [mode |-> "token", jwt |-> FALSE, operatorSeedSecret |-> FALSE,
              operatorName |-> ""],
     accts |-> [a \in Accounts |-> AccountDecl(a, FALSE, FALSE)],
     users |-> [u \in Users |->
                  IF u = "u1"
                  THEN UserDecl(u, TRUE, "token", NoValue, <<"publisher">>,
                                NoValue, FALSE)
                  ELSE UserDecl(u, TRUE, "inherit", NoValue, NoValue,
                                [generate |-> FALSE, secretRef |-> TRUE],
                                FALSE)]],
    \* hierarchical mode declared without the jwt block, one account
    [cfg |-> [mode |-> "jwt", jwt |-> FALSE, operatorSeedSecret |-> FALSE,
              operatorName |-> ""],
     accts |-> [a \in Accounts |-> AccountDecl(a, a = "a1", FALSE)],
     users |-> [u \in Users |-> NoUser(u)]]
    }

\* The cluster before the first reconcile: the declared objects of sc, the
\* referenced Secrets with the content ext, nothing derived yet.
InitState(sc, ext) ==
        /\ cfgMeta = [phase |-> "live", finalizer |-> FALSE]
        /\ cfgSpec = sc.cfg
        /\ cfgStatus = [operatorPubKey |-> NoValue, resolverReady |-> FALSE,
                        ready |-> "", reason |-> ""]
        /\ cfgDirty = FALSE
        /\ opSeedSecret = NoValue
        /\ extSecrets = ext
        /\ target = NoValue
        /\ acctMeta = [a \in Accounts |-> sc.accts[a].meta]
        /\ acctSpec = [a \in Accounts |-> sc.accts[a].spec]
        /\ acctStatus = [a \in Accounts |->
                           [accountID |-> NoValue, jwtSecretRef |-> "",
                            ready |-> "", reason |-> ""]]
        /\ acctSecret = [a \in Accounts |-> NoValue]
        /\ userMeta = [u \in Users |-> sc.users[u].meta]
        /\ userSpec = [u \in Users |-> sc.users[u].spec]
        /\ userStatus = [u \in Users |->
                           [state |-> "", ready |-> "", publicKey |-> NoValue,
                            secretRef |-> ""]]
        /\ userSecret = [u \in Users |-> NoValue]
        /\ workers = NoWorkers
        /\ keyGen = [o \in {CfgName} \cup Accounts \cup Users |-> 0]
        /\ disruptions = 0
        /\ now = 0
        /\ last = [op |-> "Init", id |-> "", err |-> "", writes |-> {}]

Init == \E sc \in Scenarios : InitState(sc, [n \in ExtNames |-> <<n, 1>>])

Next ==
    \/ ReconcileAuthConfig
    \/ \E a \in Accounts : ReconcileAccount(a)
    \/ \E u \in Users : ReconcileUser(u)
    \/ \E a \in Accounts : UpdateAccountLimits(a)
    \/ \E a \in Accounts : DeleteAccountSecret(a)
    \/ DeleteOperatorSeedSecret
    \/ \E n \in ExtNames : RotateExternalSecret(n)
    \/ \E a \in Accounts : DeleteAccount(a)
    \/ \E u \in Users : UpdateUserPermissions(u)
    \/ \E u \in Users : UpdateUsername(u)
    \/ \E u \in Users : DeleteUserSecret(u)
    \/ \E u \in Users : DeleteUser(u)
    \/ DeleteAuthConfig

Spec == Init /\ [][Next]_vars

\* Every return of a Reconcile on an object that still exists asks for
\* another run (RequeueAfter one or five minutes, or an error, which the
\* work queue retries), so a reconcile that stays possible is eventually
\* run.
FairInit == Init /\ cfgSpec.jwt /\ acctMeta["a1"].phase = "live"

FairNext ==
    \/ ReconcileAuthConfig
    \/ \E a \in Accounts : ReconcileAccount(a)
    \/ \E u \in Users : ReconcileUser(u)
    \/ \E a \in Accounts : DeleteAccountSecret(a)
    \/ DeleteOperatorSeedSecret
    \/ \E u \in Users : DeleteUserSecret(u)

FairSpec ==
    /\ FairInit /\ [][FairNext]_vars
    /\ WF_vars(ReconcileAuthConfig)
    /\ \A a \in Accounts : WF_vars(ReconcileAccount(a))
    /\ \A u \in Users : WF_vars(ReconcileUser(u))

\* Two overlapping reconciles of ConcAccount, whose declared state nobody
\* edits, next to the reconciles of its NatsAuthConfig.
ConcInit == Init /\ cfgSpec.jwt /\ acctMeta[ConcAccount].phase = "live"

ConcNext ==
    \/ ReconcileAuthConfig
    \/ \E w \in Workers : ConcGetAccount(w)
    \/ \E w \in Workers : ConcReadSecret(w)
    \/ \E w \in Workers : ConcWriteSecret(w)
    \/ \E w \in Workers : ConcUpdateStatus(w)

ConcSpec == ConcInit /\ [][ConcNext]_vars

\* The deletion of accounts, handled one API call at a time, next to the
\* reconciles of the accounts and of their NatsAuthConfig.
DelInit == Init /\ cfgSpec.mode = "jwt" /\ cfgSpec.jwt

DelNext ==
    \/ ReconcileAuthConfig
    \/ \E a \in Accounts : ReconcileAccount(a)
    \/ \E a \in Accounts : DeleteAccount(a)
    \/ \E a \in Accounts : handleDeletionTrigger(a)
    \/ \E a \in Accounts : handleDeletionRemoveFinalizer(a)

DelSpec == DelInit /\ [][DelNext]_vars

\* Repeated and overlapping executions of getOrCreateOperatorSeed for a
\* NatsAuthConfig that declares no seed reference.
OpSeedInit == Init /\ cfgSpec.jwt /\ ~cfgSpec.operatorSeedSecret

OpSeedNext ==
    \/ \E w \in Workers : OperatorSeedGenerate(w)
    \/ \E w \in Workers : OperatorSeedCreate(w)
    \/ \E w \in Workers : OperatorSeedGet(w)
    \/ OperatorSeedDeleted

OpSeedSpec == OpSeedInit /\ [][OpSeedNext]_vars

\* The NatsAuthConfig and its accounts while the owner deletes referenced
\* Secrets and edits the config.
CfgStatusNext ==
    \/ ReconcileAuthConfig
    \/ \E a \in Accounts : ReconcileAccount(a)
    \/ \E n \in ExtNames : DeleteExternalSecret(n)
    \/ RemoveJWTBlock

CfgStatusSpec == Init /\ [][CfgStatusNext]_vars

\* Deployments whose declared state the reconcilers do not support: an
\* account under a flat-mode config, a hierarchical or mixed config without
\* the jwt block, a hierarchical user without accountRef.
UnsupportedScenarios == {
    [cfg |-> [mode |-> "token", jwt |-> FALSE, operatorSeedSecret |-> FALSE,
              operatorName |-> ""],
     accts |-> [a \in Accounts |-> AccountDecl(a, a = "a1", FALSE)],
     users |-> [u \in Users |->
                  IF u = "u1"
                  THEN UserDecl(u, TRUE, "jwt", NoValue, NoValue, NoValue,
                                FALSE)
                  ELSE NoUser(u)]],
    [cfg |-> [mode |-> "jwt", jwt |-> FALSE, operatorSeedSecret |-> FALSE,
              operatorName |-> ""],
     accts |-> [a \in Accounts |-> AccountDecl(a, a = "a1", FALSE)],
     users |-> [u \in Users |->
                  IF u = "u1"
                  THEN UserDecl(u, TRUE, "jwt", NoValue, NoValue, NoValue,
                                FALSE)
                  ELSE NoUser(u)]],
    [cfg |-> [mode |-> "mixed", jwt |-> FALSE, operatorSeedSecret |-> FALSE,
              operatorName |-> ""],
     accts |-> [a \in Accounts |-> AccountDecl(a, a = "a1", FALSE)],
     users |-> [u \in Users |-> NoUser(u)]],
    [cfg |-> [mode |-> "jwt", jwt |-> TRUE, operatorSeedSecret |-> FALSE,
              operatorName |-> "NATS Operator"],
     accts |-> [a \in Accounts |-> AccountDecl(a, a = "a1", FALSE)],
     users |-> [u \in Users |->
                  IF u = "u1"
                  THEN UserDecl(u, TRUE, "jwt", NoValue, NoValue, NoValue,
                                FALSE)
                  ELSE UserDecl(u, TRUE, "jwt", RefA1, NoValue, NoValue,
                                FALSE)]]
    }

UnsupportedInit == \E sc \in UnsupportedScenarios : InitState(sc, [n \in ExtNames |-> <<n, 1>>])

UnsupportedNext ==
    \/ ReconcileAuthConfig
    \/ \E a \in Accounts : ReconcileAccount(a)
    \/ \E u \in Users : ReconcileUser(u)
    \/ RemoveJWTBlock
    \/ SetModeToken

UnsupportedSpec == UnsupportedInit /\ [][UnsupportedNext]_vars

\* ------------------------------------------------- internal/jwt in isolation
\* Calls of the functions of internal/jwt on arbitrary arguments. Nothing of
\* the cluster is read or written; last records the call and its results.
storeVars == <<cfgMeta, cfgSpec, cfgStatus, cfgDirty, opSeedSecret,
               extSecrets, target, acctMeta, acctSpec, acctStatus, acctSecret,
               userMeta, userSpec, userStatus, userSecret, workers, keyGen,
               disruptions, now>>

\* Seeds a caller may pass: none, a malformed one, well-formed ones.
SeedInputs == {NoValue, <<"malformed">>, <<"s", 1>>, <<"s", 2>>}
SigningSeeds == {sd \in SeedInputs : ValidSeed(sd)} \cup {<<"s", 3>>}
\* Issuers a caller may have filled in before signing.
IssuerInputs == {NoValue} \cup {PublicKey(sd) : sd \in SigningSeeds}
RandInputs == {1, 2}
LimitInputs == {NoValue, AccountLimits([conn |-> 100])}
PermissionInputs == {NoValue, NewPermissions}

CallSignAccountJWT ==
    /\ \E signer \in SigningSeeds, subject \in SigningSeeds,
          iss \in IssuerInputs, limits \in LimitInputs :
          LET claims == [CreateAccountClaims(subject, "a1", "tenant", limits)
                            EXCEPT !.iss = iss]
          IN  last' = [op |-> "SignAccountJWT", id |-> "", err |-> "",
                       writes |-> {}, signer |-> signer, claims |-> claims,
                       token |-> SignAccountJWT(signer, claims)]
    /\ UNCHANGED storeVars

CallSignUserJWT ==
    /\ \E signer \in SigningSeeds, subject \in SigningSeeds,
          iss \in IssuerInputs, permissions \in PermissionInputs :
          LET claims == [CreateUserClaims(subject, <<"u1">>, permissions)
                            EXCEPT !.iss = iss]
          IN  last' = [op |-> "SignUserJWT", id |-> "", err |-> "",
                       writes |-> {}, signer |-> signer, claims |-> claims,
                       token |-> SignUserJWT(signer, claims)]
    /\ UNCHANGED storeVars

\* A manager constructor called twice on the same seed, each call with its
\* own draw from the random source.
CallNewManager ==
    /\ \E kind \in {"operator", "account", "user"}, seed \in SeedInputs,
          r1 \in RandInputs, r2 \in RandInputs :
          LET new(r) == IF kind = "operator" THEN NewOperatorManager(seed, r)
                        ELSE IF kind = "account"
                        THEN NewAccountManager(seed, r)
                        ELSE NewUserManager(seed, r)
          IN  last' = [op |-> "NewManager", id |-> kind, err |-> new(r1).err,
                       writes |-> {}, seed |-> seed, rands |-> <<r1, r2>>,
                       first |-> new(r1), second |-> new(r2)]
    /\ UNCHANGED storeVars

LibInit == Init /\ cfgSpec.mode = "token"

LibNext ==
    \/ CallSignAccountJWT
    \/ CallSignUserJWT
    \/ CallNewManager

LibSpec == LibInit /\ [][LibNext]_vars

\* ------------------------------------------- internal/resolver in isolation
\* Calls of WriteResolverConfig on arbitrary objects and arguments, with and
\* without a failing API call; last records the call, the objects before
\* and after, and the error returned.
ConfigTypes == {"Secret", "ConfigMap", ""}
ConfigKeys == {"auth.conf", "resolver.conf"}
ConfigContents == {"authorization {}", "operator: eyJ"}
StoreFaults == {"", "get", "create", "update"}

\* The Data an object of the given form of values may hold.
ObjectInputs(Value(_)) ==
    {NoValue}
    \cup {[k \in {"auth.conf"} |-> Value("old")],
          [k \in {"other"} |-> Value("kept")],
          [k \in {"auth.conf", "other"} |->
              IF k = "other" THEN Value("kept") ELSE Value("old")]}

Identity(content) == content

StoreInputs ==
    [secret : ObjectInputs(Bytes), configMap : ObjectInputs(Identity)]

CallWriteResolverConfig ==
    /\ \E store \in StoreInputs, configType \in ConfigTypes,
          key \in ConfigKeys, content \in ConfigContents,
          fault \in StoreFaults :
          LET r == WriteResolverConfigOfType(store, configType, key, content,
                                             fault)
          IN  last' = [op |-> "WriteResolverConfig", id |-> configType,
                       err |-> r.err, writes |-> {}, key |-> key,
                       content |-> content, fault |-> fault,
                       before |-> store, after |-> r.store]
    /\ UNCHANGED storeVars

WriterSpec == LibInit /\ [][CallWriteResolverConfig]_vars

\* Calls on one resolver Builder, from NewBuilder on. last records the
\* call and the Builder's file system before and after it.
AccountIDs == {"AAAA", "ABBB"}
JWTInputs == {"eyJ1", "eyJ2"}
FsKinds == {"mem", "os"}
BaseDirs == {<<<<"resolver">>>>, <<<<"data">>, <<".">>, <<"resolver">>>>}

BuilderCall(op, id, jwt, r) ==
    [op |-> op, id |-> id, err |-> r.err, writes |-> {}, jwt |-> jwt,
     before |-> last.builder, builder |-> r.builder]

CallNewBuilder ==
    /\ last.op = "Init"
    /\ \E kind \in FsKinds, baseDir \in BaseDirs :
          last' = [op |-> "NewBuilder", id |-> "", err |-> "", writes |-> {},
                   jwt |-> "",
                   before |-> NoValue,
                   builder |-> [kind |-> kind, baseDir |-> baseDir,
                                dirs |-> {}, files |-> {}]]
    /\ UNCHANGED storeVars

CallInitialize ==
    /\ last.op # "Init"
    /\ last' = BuilderCall("Initialize", "", "", Initialize(last.builder))
    /\ UNCHANGED storeVars

CallWriteOperatorJWT ==
    /\ last.op # "Init"
    /\ \E jwt \in JWTInputs :
          last' = BuilderCall("WriteOperatorJWT", "", jwt,
                              WriteOperatorJWT(last.builder, jwt))
    /\ UNCHANGED storeVars

CallWriteAccountJWT ==
    /\ last.op # "Init"
    /\ \E id \in AccountIDs, jwt \in JWTInputs :
          last' = BuilderCall("WriteAccountJWT", id, jwt,
                              WriteAccountJWT(last.builder, id, jwt))
    /\ UNCHANGED storeVars

CallDeleteAccountJWT ==
    /\ last.op # "Init"
    /\ \E id \in AccountIDs :
          last' = BuilderCall("DeleteAccountJWT", id, "",
                              DeleteAccountJWT(last.builder, id))
    /\ UNCHANGED storeVars

DirNext ==
    \/ CallNewBuilder
    \/ CallInitialize
    \/ CallWriteOperatorJWT
    \/ CallWriteAccountJWT
    \/ CallDeleteAccountJWT

DirSpec == LibInit /\ [][DirNext]_vars

\* ------------------------------------- claims builder and auth type alone
\* Values a limit is declared with: unlimited, none, some.
LimitValues == {NoLimit, 0, 5}

AccountLimitFields == {"conn", "subs", "payload", "data", "exports", "imports"}
JetStreamLimitFields ==
    {"memoryStorage", "diskStorage", "streams", "consumer", "maxAckPending",
     "memoryMaxStreamBytes", "diskMaxStreamBytes"}

\* Declared limits objects without jetstream: no field, one field, all.
DeclaredAccountLimits ==
    {<<>>}
    \cup {f :> v : f \in AccountLimitFields, v \in LimitValues}
    \cup {"wildcardExports" :> b : b \in BOOLEAN}
    \cup {[conn |-> 5, subs |-> 5, payload |-> 0, data |-> 5, exports |-> 0,
           imports |-> 5, wildcardExports |-> FALSE]}

\* Declared jetstream objects: no field, one field, all.
DeclaredJetStreamLimits ==
    {<<>>}
    \cup {f :> v : f \in {"memoryStorage", "streams"}, v \in LimitValues}
    \cup {"maxBytesRequired" :> TRUE}
    \cup {[memoryStorage |-> 5, diskStorage |-> 5, streams |-> 5,
           consumer |-> 0, maxAckPending |-> 5, memoryMaxStreamBytes |-> 5,
           diskMaxStreamBytes |-> NoLimit, maxBytesRequired |-> TRUE]}

\* spec.limits of a NatsAccount as its owner declares it: left out, or an
\* object with some fields, with or without a jetstream object.
DeclaredLimits ==
    {[present |-> FALSE, fields |-> <<>>]}
    \cup {[present |-> TRUE, fields |-> d] : d \in DeclaredAccountLimits}
    \cup {[present |-> TRUE, fields |-> d @@ ("jetstream" :> j)] :
             d \in DeclaredAccountLimits, j \in DeclaredJetStreamLimits}

CallCreateAccountClaims ==
    /\ \E declared \in DeclaredLimits :
          LET limits == IF declared.present
                        THEN AccountLimits(declared.fields) ELSE NoValue
          IN  last' = [op |-> "CreateAccountClaims", id |-> "", err |-> "",
                       writes |-> {}, declared |-> declared,
                       claims |-> CreateAccountClaims(<<"s", 1>>, "a1",
                                                      "tenant", limits)]
    /\ UNCHANGED storeVars

CallResolveAuthType ==
    /\ \E authType \in {"token", "jwt", "inherit"}, mode \in AuthModes :
          last' = [op |-> "resolveAuthType", id |-> "", err |-> "",
                   writes |-> {}, authType |-> authType, mode |-> mode,
                   resolved |-> resolveAuthType(authType, mode),
                   procedure |-> reconcileProcedure(
                                     resolveAuthType(authType, mode))]
    /\ UNCHANGED storeVars

BuilderNext ==
    \/ CallCreateAccountClaims
    \/ CallResolveAuthType

BuilderSpec == LibInit /\ [][BuilderNext]_vars

\* ------------------------------------------ internal/authconf in isolation
MaxUsers == 3
MaxSubjects == 3
MaxPreload == 3

\* All sequences over S of at most n elements.
SeqsUpTo(S, n) == UNION {[1..k -> S] : k \in 0..n}

SubjectInputs == {"foo.>", "bar.>", "events.>"}
SubjectLists == {<<>>, <<"events.>">>, <<"foo.>", "bar.>">>}

\* natsv1alpha1.Permissions: nil, or the four lists.
RenderPermissionInputs ==
    {NoValue} \cup [PublishAllow : SubjectLists, PublishDeny : SubjectLists,
                    SubscribeAllow : SubjectLists, SubscribeDeny : SubjectLists]

TokenUser(username, password, token, permissions) ==
    [Username |-> username, Password |-> password, Token |-> token,
     Permissions |-> permissions]

\* Users with a password, a token, both, no name, no permissions, empty
\* permissions and one publish subject.
TokenUserInputs ==
    {TokenUser("alice", "pw", "", NoValue),
     TokenUser("pub", "", "tok",
               [PublishAllow |-> <<"events.>">>, PublishDeny |-> <<>>,
                SubscribeAllow |-> <<>>, SubscribeDeny |-> <<>>]),
     TokenUser("", "pw", "tok",
               [PublishAllow |-> <<>>, PublishDeny |-> <<>>,
                SubscribeAllow |-> <<>>, SubscribeDeny |-> <<>>])}

\* User lists of any length up to MaxUsers, and one-user lists with every
\* combination of permission lists.
TokenUserLists ==
    SeqsUpTo(TokenUserInputs, MaxUsers)
    \cup {<<TokenUser("carol", "pw", "", p)>> : p \in RenderPermissionInputs}

\* AccountJWT: two accounts, and a third that has the public id of the
\* first (two NatsAccounts naming one seed Secret) with its own token.
AccountJWTInputs ==
    {[AccountName |-> "a1", AccountID |-> "AAAA", JWT |-> "jwt-a1"],
     [AccountName |-> "a2", AccountID |-> "ABBB", JWT |-> "jwt-a2"],
     [AccountName |-> "a3", AccountID |-> "AAAA", JWT |-> "jwt-a3"]}

\* The rearrangements of a sequence.
Rearrangements(seq) ==
    {[i \in 1..Len(seq) |-> seq[p[i]]] : p \in Permutations(1..Len(seq))}

CallRenderTokenAuthConf ==
    /\ \E users \in TokenUserLists :
          last' = [op |-> "RenderTokenAuthConf", id |-> "", err |-> "",
                   writes |-> {}, users |-> users,
                   out |-> RenderTokenAuthConf(users)]
    /\ UNCHANGED storeVars

CallFormatSubjectList ==
    /\ \E subjects \in SeqsUpTo(SubjectInputs, MaxSubjects) :
          /\ Len(subjects) > 0
          /\ last' = [op |-> "formatSubjectList", id |-> "", err |-> "",
                      writes |-> {}, subjects |-> subjects,
                      out |-> formatSubjectList(subjects)]
    /\ UNCHANGED storeVars

\* The preload form rendered twice from one account list and once from a
\* rearrangement of it.
CallRenderJWTAuthConfWithPreload ==
    /\ \E accounts \in SeqsUpTo(AccountJWTInputs, MaxPreload) :
          \E other \in Rearrangements(accounts) :
             last' = [op |-> "RenderJWTAuthConfWithPreload", id |-> "",
                      err |-> "", writes |-> {},
                      accounts |-> accounts, other |-> other,
                      out |-> RenderJWTAuthConfWithPreload("op-jwt", accounts),
                      again |-> RenderJWTAuthConfWithPreload("op-jwt",
                                                             accounts),
                      outOther |-> RenderJWTAuthConfWithPreload("op-jwt",
                                                                other)]
    /\ UNCHANGED storeVars

RenderNext ==
    \/ CallRenderTokenAuthConf
    \/ CallFormatSubjectList
    \/ CallRenderJWTAuthConfWithPreload

RenderSpec == LibInit /\ [][RenderNext]_vars

\* ------------------------------------------- referenced seeds of any kind
\* An operator, an account and a user that each name an existing seed
\* Secret, the account and the user of the hierarchy under the operator.
RefScenario ==
    [cfg |-> [mode |-> "jwt", jwt |-> TRUE, operatorSeedSecret |-> TRUE,
              operatorName |-> "NATS Operator"],
     accts |-> [a \in Accounts |-> AccountDecl(a, a = "a1", TRUE)],
     users |-> [u \in Users |->
                  IF u = "u1"
                  THEN UserDecl(u, TRUE, "jwt", RefA1, NoValue, NoValue, TRUE)
                  ELSE NoUser(u)]]

SeedRefNames == {OperatorSeedRefName, AccountSeedRefName, UserSeedRefName}

\* What a Get of the referenced Secret and a lookup of its key can find:
\* no Secret or no key, a key without content, content that is no seed,
\* a seed.
RefContents(n) == {MissingSecret, NoValue, <<"malformed">>, <<n, 1>>}

RefInit ==
    \E ext \in [ExtNames -> UNION {RefContents(n) : n \in ExtNames}] :
        /\ \A n \in SeedRefNames : ext[n] \in RefContents(n)
        /\ ext[PasswordRefName] = <<PasswordRefName, 1>>
        /\ InitState(RefScenario, ext)

RefNext ==
    \/ ReconcileAuthConfig
    \/ \E a \in Accounts : ReconcileAccount(a)
    \/ \E u \in Users : ReconcileUser(u)
    \/ \E n \in ExtNames : RotateExternalSecret(n)

RefSpec == RefInit /\ [][RefNext]_vars

\* ----------------------------------------------- aggregation as time passes
\* A hierarchical config and its accounts, reconciled again and again
\* while nobody edits anything.
AggInit == Init /\ cfgSpec.mode = "jwt" /\ cfgSpec.jwt

AggNext ==
    \/ ReconcileAuthConfig
    \/ \E a \in Accounts : ReconcileAccount(a)
    \/ Tick

AggSpec == AggInit /\ [][AggNext]_vars

\* =========================================================== the claims
\* The step just taken was a reconcile of live account a / live user u that
\* returned without error and persisted its status.
AccountReconciled(a) ==
    /\ last.op = "ReconcileAccount" /\ last.id = a /\ last.err = ""
    /\ acctMeta[a].phase = "live"

UserReconciled(u) ==
    /\ last.op = "ReconcileUser" /\ last.id = u /\ last.err = ""
    /\ userMeta[u].phase = "live"

\* The operator seed in effect for the config: the referenced Secret when
\* spec.jwt.operatorSeedSecret is declared, else the generated Secret.
OperatorSeedInEffect ==
    IF cfgSpec.operatorSeedSecret THEN extSecrets[OperatorSeedRefName]
    ELSE opSeedSecret

\* C1: right after a successful reconcile of an account whose token is
\* persisted, the token's issuer is the public id derived from the operator
\* seed in effect - also when the operator's seed changed before that
\* reconcile.
C1_AccountIssuerIsOperator ==
    \A a \in Accounts :
        (/\ AccountReconciled(a)
         /\ acctSecret[a] # NoValue
         /\ OperatorSeedInEffect # NoValue)
        => acctSecret[a].jwt.iss = PublicKey(OperatorSeedInEffect)

\* C2: right after a successful reconcile of a hierarchical user whose
\* credentials are persisted, the issuer of the user token is the public id
\* derived from the seed stored in its account's record - also when that
\* record was re-created with another keypair before the reconcile.
C2_UserIssuerIsAccount ==
    \A u \in Users :
        (/\ UserReconciled(u)
         /\ userAuthType(u) = "jwt"
         /\ userSecret[u] # NoValue
         /\ getAccount(u) # ""
         /\ acctSecret[getAccount(u)] # NoValue)
        => userSecret[u].jwt.iss = PublicKey(acctSecret[getAccount(u)].seed)

\* C3: a reconcile of an account (hierarchical user) whose record holds a
\* usable seed that does not derive the public id in status (or status has
\* none) keeps that seed in the record, and the status it persists is the
\* public id derived from it.
C3_GuardKeepsStoredSeed ==
    [][/\ \A a \in Accounts :
            (/\ last'.op = "ReconcileAccount" /\ last'.id = a
             /\ acctMeta[a].phase = "live"
             /\ acctSecret[a] # NoValue
             /\ ValidSeed(acctSecret[a].seed)
             /\ PublicKey(acctSecret[a].seed) # acctStatus[a].accountID)
            => /\ acctSecret'[a] # NoValue
               /\ acctSecret'[a].seed = acctSecret[a].seed
               /\ last'.err = "" =>
                    acctStatus'[a].accountID = PublicKey(acctSecret[a].seed)
       /\ \A u \in Users :
            (/\ last'.op = "ReconcileUser" /\ last'.id = u
             /\ userMeta[u].phase = "live"
             /\ userAuthType(u) = "jwt"
             /\ userSecret[u] # NoValue
             /\ ValidSeed(userSecret[u].seed)
             /\ PublicKey(userSecret[u].seed) # userStatus[u].publicKey)
            => /\ userSecret'[u] # NoValue
               /\ userSecret'[u].seed = userSecret[u].seed
               /\ last'.err = "" =>
                    userStatus'[u].publicKey = PublicKey(userSecret[u].seed)
      ]_vars

\* C4: when the <account>-account-jwt Secret of a Ready account is gone,
\* the reconcile that re-creates it leaves status.accountId as it was.
C4_RegenerationKeepsAccountId ==
    [][\A a \in Accounts :
          (/\ last'.op = "ReconcileAccount" /\ last'.id = a
           /\ acctMeta[a].phase = "live"
           /\ acctStatus[a].ready = "True"
           /\ acctStatus[a].accountID # NoValue
           /\ acctSecret[a] = NoValue
           /\ last'.err = ""
           /\ acctSecret'[a] # NoValue)
          => acctStatus'[a].accountID = acctStatus[a].accountID
      ]_vars

\* The state a successful reconcile leaves an account in, store intact:
\* Ready, and the record holds the token and the seed status was derived
\* from. For a hierarchical user: Ready, and the record holds its
\* credentials.
AcctSettled(a) ==
    /\ acctStatus[a].ready = "True"
    /\ acctSecret[a] # NoValue
    /\ acctSecret[a].jwt # NoValue
    /\ ValidSeed(acctSecret[a].seed)
    /\ PublicKey(acctSecret[a].seed) = acctStatus[a].accountID

UserSettled(u) ==
    /\ userAuthType(u) = "jwt"
    /\ userStatus[u].ready = "True"
    /\ userStatus[u].publicKey # NoValue
    /\ userSecret[u] # NoValue
    /\ userSecret[u].creds # NoValue

\* C5: a successful reconcile leaves the account (hierarchical user)
\* settled, and a reconcile of a settled account (user) writes nothing: no
\* Secret is created or updated, seed, public id and token are as before,
\* and the NatsAuthConfig is not triggered.
C5_SettledReconcileWritesNothing ==
    [][/\ \A a \in Accounts :
            (last'.op = "ReconcileAccount" /\ last'.id = a
             /\ acctMeta[a].phase = "live")
            => /\ AcctSettled(a) =>
                    /\ last'.writes = {}
                    /\ acctSecret' = acctSecret
                    /\ acctStatus'[a].accountID = acctStatus[a].accountID
                    /\ cfgDirty' = cfgDirty
                    /\ target' = target
                    /\ opSeedSecret' = opSeedSecret
                    /\ keyGen' = keyGen
               /\ last'.err = "" => AcctSettled(a)'
       /\ \A u \in Users :
            (last'.op = "ReconcileUser" /\ last'.id = u
             /\ userMeta[u].phase = "live")
            => /\ UserSettled(u) =>
                    /\ last'.writes = {}
                    /\ userSecret' = userSecret
                    /\ userStatus'[u].publicKey = userStatus[u].publicKey
                    /\ cfgDirty' = cfgDirty
                    /\ target' = target
                    /\ keyGen' = keyGen
               /\ (last'.err = "" /\ userAuthType(u) = "jwt")
                    => UserSettled(u)'
      ]_vars

\* C5 witness: a settled account was reconciled again, nothing was written,
\* and the NatsAuthConfig, reconciled since the first pass, was not
\* triggered again.
C5_Witness ==
    \E a \in Accounts :
        /\ AccountReconciled(a)
        /\ last.writes = {}
        /\ AcctSettled(a)
        /\ cfgDirty = FALSE
        /\ cfgStatus.ready = "True"

\* C6: right after a successful reconcile of an account, the persisted
\* token carries the declared limits and description, and its subject is
\* the account id in status.
C6_TokenReflectsDeclaredLimits ==
    \A a \in Accounts :
        (AccountReconciled(a) /\ acctSecret[a] # NoValue)
        => /\ acctSecret[a].jwt.conn =
                 CreateAccountClaims(acctSecret[a].seed, a,
                     acctSpec[a].description, acctSpec[a].limits).conn
           /\ acctSecret[a].jwt.description = acctSpec[a].description
           /\ acctSecret[a].jwt.sub = acctStatus[a].accountID

\* C7: right after a successful reconcile of a hierarchical user whose
\* account record exists, the persisted user token carries the declared
\* permission lists and name and is signed by the account's stored seed.
C7_UserTokenReflectsDeclaredState ==
    \A u \in Users :
        (/\ UserReconciled(u)
         /\ userAuthType(u) = "jwt"
         /\ userSecret[u] # NoValue
         /\ getAccount(u) # ""
         /\ acctSecret[getAccount(u)] # NoValue)
        => userSecret[u].jwt =
             SignUserJWT(acctSecret[getAccount(u)].seed,
                 CreateUserClaims(userSecret[u].seed,
                     IF userSpec[u].username # NoValue
                     THEN userSpec[u].username ELSE <<u>>,
                     userSpec[u].permissions))

\* C8: a reconcile of a flat user with a generated password, whose record
\* already exists, leaves USERNAME and PASSWORD of the record as they were
\* and does not update the Secret.
GeneratedPassword(u) ==
    userSpec[u].passwordFrom = NoValue \/ userSpec[u].passwordFrom.generate

C8_GeneratedPasswordStable ==
    [][\A u \in Users :
          (/\ last'.op = "ReconcileUser" /\ last'.id = u
           /\ userMeta[u].phase = "live"
           /\ userAuthType(u) = "token"
           /\ GeneratedPassword(u)
           /\ userSecret[u] # NoValue
           /\ userSecret[u].password # NoValue)
          => /\ userSecret'[u] # NoValue
             /\ userSecret'[u].password = userSecret[u].password
             /\ userSecret'[u].username = userSecret[u].username
             /\ "user-creds" \notin last'.writes
      ]_vars

\* The rendered flat dialect has an entry with this username and password.
FlatEntry(content, username, password) ==
    \E i \in 1..Len(content) :
        /\ i < Len(content)
        /\ content[i] = <<Text("      user: "), Quoted(username)>>
        /\ content[i + 1] = <<Text("      password: "), Quoted(password)>>

\* C9: right after a successful token-mode reconcile of the NatsAuthConfig,
\* the artifact under the configured key holds an authorization entry with
\* the username and password of every flat user that references the config
\* and has been reconciled.
C9_ArtifactListsFlatUsers ==
    (/\ last.op = "ReconcileAuthConfig" /\ last.err = ""
     /\ cfgSpec.mode = "token")
    => \A u \in Users :
          (/\ userMeta[u].phase = "live"
           /\ userAuthType(u) = "token"
           /\ userGetAuthConfig(u)
           /\ userSecret[u] # NoValue)
          => FlatEntry(target[ServerAuthConfigKey], userSecret[u].username,
                       userSecret[u].password)

\* C10: right after a successful JWT-mode reconcile of the NatsAuthConfig,
\* the aggregate holds the operator token under "operator", the persisted
\* token of every account that references the config and has a token and
\* a status account id under the account's name, and nothing else.
ReferencingAccounts ==
    {a \in Accounts :
        /\ acctMeta[a].phase # "absent"
        /\ acctGetAuthConfig(a)
        /\ acctSecret[a] # NoValue
        /\ acctSecret[a].jwt # NoValue
        /\ acctStatus[a].accountID # NoValue}

C10_AggregateIsExact ==
    (/\ last.op = "ReconcileAuthConfig" /\ last.err = ""
     /\ cfgSpec.mode \in {"jwt", "mixed"} /\ cfgSpec.jwt)
    => /\ target # NoValue
       /\ DOMAIN target = {"operator"} \cup ReferencingAccounts
       /\ target["operator"] =
             OperatorJWT(OperatorSeedInEffect, cfgSpec.operatorName)
       /\ \A a \in ReferencingAccounts : target[a] = acctSecret[a].jwt

\* C11: a successful reconcile of an account that the aggregation step
\* would collect (token and status account id persisted), but whose token
\* the aggregate does not hold, leaves the NatsAuthConfig triggered.
MissingFromAggregate(a) ==
    /\ a \in collectAccountJWTs
    /\ \/ target = NoValue
       \/ a \notin DOMAIN target
       \/ target[a] # acctSecret[a].jwt

C11_ReconcileRetriggersAggregation ==
    [][\A a \in Accounts :
          (/\ last'.op = "ReconcileAccount" /\ last'.id = a
           /\ last'.err = ""
           /\ acctMeta[a].phase = "live"
           /\ cfgMeta.phase = "live"
           /\ MissingFromAggregate(a))
          => cfgDirty'
      ]_vars

\* C12: right after a successful JWT-mode reconcile of a NatsAuthConfig
\* declared without a seed reference, status.operatorPubKey is the public
\* id of the persisted operator seed, and the aggregate's entry "operator"
\* is a self-signed operator token with that issuer and subject.
C12_OperatorEntryIsSelfSigned ==
    (/\ last.op = "ReconcileAuthConfig" /\ last.err = ""
     /\ cfgMeta.phase = "live"
     /\ cfgSpec.mode \in {"jwt", "mixed"} /\ cfgSpec.jwt
     /\ ~cfgSpec.operatorSeedSecret)
    => /\ opSeedSecret # NoValue
       /\ cfgStatus.operatorPubKey # NoValue
       /\ cfgStatus.operatorPubKey = PublicKey(opSeedSecret)
       /\ target # NoValue
       /\ target["operator"].typ = "operator"
       /\ target["operator"].iss = cfgStatus.operatorPubKey
       /\ target["operator"].sub = cfgStatus.operatorPubKey

\* C13: SignAccountJWT and SignUserJWT return a token whose issuer is the
\* public id of the signing keypair, whatever issuer the caller had put in
\* the claims; every other claim is as the caller gave it, and the call
\* writes nothing to the store.
C13_IssuerIsSigner ==
    [][(last'.op \in {"SignAccountJWT", "SignUserJWT"})
        => /\ last'.token.iss = PublicKey(last'.signer)
           /\ last'.token = [last'.claims EXCEPT
                                !.iss = PublicKey(last'.signer)]
           /\ UNCHANGED storeVars
      ]_vars

\* C13 witness: an account token was signed from claims that carried the
\* public id of another keypair as issuer.
C13_Witness ==
    /\ last.op = "SignAccountJWT"
    /\ last.claims.iss # NoValue
    /\ last.claims.iss # PublicKey(last.signer)
    /\ last.token.iss = PublicKey(last.signer)

\* The operator of a config declared without a seed reference has neither
\* a persisted seed nor a persisted public id yet.
OperatorNotReady ==
    /\ cfgMeta.phase = "live"
    /\ cfgSpec.mode \in {"jwt", "mixed"}
    /\ cfgSpec.jwt
    /\ ~cfgSpec.operatorSeedSecret
    /\ opSeedSecret = NoValue
    /\ cfgStatus.operatorPubKey = NoValue

\* The account a hierarchical user refers to exists and has no account id
\* in its status yet.
AccountNotReady(u) ==
    /\ userAuthType(u) = "jwt"
    /\ userGetAuthConfig(u)
    /\ userSpec[u].accountRef # NoValue
    /\ getAccount(u) # ""
    /\ acctStatus[getAccount(u)].accountID = NoValue

OperatorSeedStored ==
    IF cfgSpec.operatorSeedSecret
    THEN extSecrets[OperatorSeedRefName] # MissingSecret
    ELSE opSeedSecret # NoValue

\* Nothing stands in the way of account a: it is live, its config resolves
\* in a hierarchical mode with the jwt block, the operator seed is stored,
\* and a key can still be generated for it where one is needed.
AcctCauseRemoved(a) ==
    /\ acctMeta[a].phase = "live"
    /\ acctGetAuthConfig(a)
    /\ cfgSpec.mode \in {"jwt", "mixed"}
    /\ cfgSpec.jwt
    /\ OperatorSeedStored
    /\ \/ acctSpec[a].existingSeedSecret
       \/ keyGen[a] < MaxGen
       \/ acctSkipRegeneration(a)

AcctReady(a) == acctStatus[a].ready = "True" /\ acctSecret[a] # NoValue

\* Nothing stands in the way of user u: it is live, its config resolves,
\* its auth type is supported, in hierarchical mode its account is Ready
\* with its record stored, in flat mode the referenced password is stored,
\* and a key can still be generated for it where one is needed.
UserCauseRemoved(u) ==
    /\ userMeta[u].phase = "live"
    /\ userGetAuthConfig(u)
    /\ \/ /\ userAuthType(u) = "jwt"
          /\ userSpec[u].accountRef # NoValue
          /\ getAccount(u) # ""
          /\ AcctReady(getAccount(u))
          /\ \/ userSpec[u].existingSeedSecret
             \/ keyGen[u] < MaxGen
             \/ userSkipRegeneration(u)
       \/ /\ userAuthType(u) = "token"
          /\ keyGen[u] < MaxGen

UserReady(u) ==
    /\ userStatus[u].ready = "True"
    /\ userStatus[u].state = "Ready"
    /\ userSecret[u] # NoValue

FailedReconcile(op) ==
    /\ last'.op = op
    /\ last'.err \notin {"", "status update conflict"}

\* C16: a reconcile that fails leaves Ready=False with a reason in the
\* status of the entity it reconciled, and changes neither the record nor
\* the status of any other entity.
C16_ErrorsRecordedInStatus ==
    [][/\ FailedReconcile("ReconcileAuthConfig") =>
             /\ cfgStatus'.ready = "False" /\ cfgStatus'.reason # ""
             /\ UNCHANGED <<acctStatus, acctSecret, userStatus, userSecret>>
       /\ \A a \in Accounts :
             FailedReconcile("ReconcileAccount") /\ last'.id = a =>
                /\ acctStatus'[a].ready = "False"
                /\ acctStatus'[a].reason # ""
                /\ \A b \in Accounts \ {a} :
                      UNCHANGED <<acctStatus[b], acctSecret[b]>>
                /\ UNCHANGED <<cfgStatus, opSeedSecret, target, userStatus,
                               userSecret>>
       /\ \A u \in Users :
             FailedReconcile("ReconcileUser") /\ last'.id = u =>
                /\ userStatus'[u].ready = "False"
                /\ userStatus'[u].state = "Error"
                /\ \A v \in Users \ {u} :
                      UNCHANGED <<userStatus[v], userSecret[v]>>
                /\ UNCHANGED <<cfgStatus, opSeedSecret, target, acctStatus,
                               acctSecret>>
      ]_vars

\* An <account>-account-jwt record is whole: token and seed are both there
\* and the token's subject is the public id of the seed.
AccountRecordWhole(rec) ==
    /\ rec.jwt # NoValue
    /\ rec.seed # NoValue
    /\ rec.jwt.sub = PublicKey(rec.seed)

\* A <user>-user-creds record of a hierarchical user is whole: credentials
\* file, token and seed are all there, the token's subject is the public id
\* of the seed and the credentials file is made of that token and seed.
UserRecordWhole(rec) ==
    /\ rec.creds # NoValue
    /\ rec.jwt # NoValue
    /\ rec.seed # NoValue
    /\ rec.jwt.sub = PublicKey(rec.seed)
    /\ rec.creds = GenerateCredsFile(rec.jwt, rec.seed)

RecordsWhole ==
    /\ \A a \in Accounts :
          acctSecret[a] # NoValue => AccountRecordWhole(acctSecret[a])
    /\ \A u \in Users :
          /\ userSecret[u] # NoValue
          /\ \/ userSecret[u].creds # NoValue
             \/ userSecret[u].jwt # NoValue
             \/ userSecret[u].seed # NoValue
          => UserRecordWhole(userSecret[u])

\* C17: no credential record is ever partially written. After every step
\* each account record holds token and seed with the token's subject
\* derived from that seed, each hierarchical user record holds credentials
\* file, token and seed derived from one seed; and a reconcile whose write
\* of the record fails leaves the record as it was.
C17_RecordsNeverPartial ==
    [][/\ RecordsWhole'
       /\ \A a \in Accounts :
             /\ last'.op = "ReconcileAccount" /\ last'.id = a
             /\ "account-jwt" \notin last'.writes
             => acctSecret'[a] = acctSecret[a]
       /\ \A u \in Users :
             /\ last'.op = "ReconcileUser" /\ last'.id = u
             /\ "user-creds" \notin last'.writes
             => userSecret'[u] = userSecret[u]
      ]_vars

\* An account record and a hierarchical user record are stored, and the
\* latest step is a reconcile of that user whose write of a regenerated
\* record was rejected.
C17_Witness ==
    /\ last.op = "ReconcileUser"
    /\ last.err = "failed to write credentials secret"
    /\ userSecret[last.id] # NoValue
    /\ userSecret[last.id].creds # NoValue
    /\ acctSecret["a1"] # NoValue

\* C18: when two overlapping reconciles of one account with unchanged
\* declared state have both returned, neither of them for want of the
\* operator seed, exactly one of them wrote the
\* account's record, and the record and the account id in status are those
\* of that writer.
C18_ExactlyOneWriter ==
    (\A w \in Workers :
        /\ Worker(w).pc = "done"
        /\ Worker(w).err # "failed to get operator seed secret") =>
        /\ Cardinality({w \in Workers : Worker(w).wrote}) = 1
        /\ \A w \in Workers : Worker(w).wrote =>
              /\ acctSecret[ConcAccount] = Worker(w).secret
              /\ acctStatus[ConcAccount].accountID
                     = PublicKey(Worker(w).secret.seed)

\* An account or a user that is not gone refers to the config.
HasDependents ==
    \/ \E a \in Accounts : acctMeta[a].phase # "absent" /\ acctGetAuthConfig(a)
    \/ \E u \in Users : userMeta[u].phase # "absent" /\ userGetAuthConfig(u)

\* C19: a reconcile of a NatsAuthConfig whose deletion was requested while
\* an account or user still refers to it keeps the finalizer, so the
\* config is not deleted.
C19_NotDeletedWithDependents ==
    [][/\ last'.op = "ReconcileAuthConfig"
       /\ cfgMeta.phase = "deleting"
       /\ HasDependents
       => cfgMeta'.phase = "deleting" /\ cfgMeta'.finalizer]_vars

RefSeed(n) == extSecrets'[n]

\* The referenced seed Secret or its key does not exist.
RefMissing(n) == extSecrets[n] = MissingSecret

\* C21: an external seed reference takes precedence. A record written for
\* an operator, account or user that names a seed Secret carries that seed
\* and a token whose subject is that seed's public id, signed with the
\* referenced seed of its parent where the parent names one; a reconcile
\* that finds the referenced Secret or key missing fails and writes nothing.
C21_ReferencedSeedTakesPrecedence ==
    [][/\ last'.op = "ReconcileAuthConfig" /\ cfgSpec.operatorSeedSecret =>
             /\ "target" \in last'.writes =>
                   /\ target'["operator"].sub
                          = PublicKey(RefSeed(OperatorSeedRefName))
                   /\ cfgStatus'.operatorPubKey
                          = PublicKey(RefSeed(OperatorSeedRefName))
             /\ RefMissing(OperatorSeedRefName) =>
                   last'.err # "" /\ last'.writes = {}
       /\ \A a \in Accounts :
             /\ last'.op = "ReconcileAccount" /\ last'.id = a
             /\ acctMeta[a].phase = "live" /\ acctSpec[a].existingSeedSecret
             => /\ "account-jwt" \in last'.writes =>
                      /\ acctSecret'[a].seed = RefSeed(AccountSeedRefName)
                      /\ acctSecret'[a].jwt.sub
                             = PublicKey(RefSeed(AccountSeedRefName))
                      /\ cfgSpec.operatorSeedSecret =>
                            acctSecret'[a].jwt.iss
                               = PublicKey(RefSeed(OperatorSeedRefName))
                /\ RefMissing(AccountSeedRefName) =>
                      last'.err # "" /\ last'.writes = {}
       /\ \A u \in Users :
             /\ last'.op = "ReconcileUser" /\ last'.id = u
             /\ userMeta[u].phase = "live" /\ userSpec[u].existingSeedSecret
             => /\ "user-creds" \in last'.writes =>
                      /\ userSecret'[u].seed = RefSeed(UserSeedRefName)
                      /\ userSecret'[u].jwt.sub
                             = PublicKey(RefSeed(UserSeedRefName))
                /\ RefMissing(UserSeedRefName) =>
                      last'.err # "" /\ last'.writes = {}]_vars


\* The lines of a rendered document that are this line.
LinesAt(out, line) == {i \in 1..Len(out) : out[i] = line}

\* The n-th smallest of a set of line numbers.
Nth(S, n) == CHOOSE k \in S : Cardinality({j \in S : j < k}) = n - 1

\* The lines that open and that close a user entry of the flat dialect.
EntryOpens(out) == LinesAt(out, <<Text("    {")>>)
EntryCloses(out) ==
    LinesAt(out, <<Text("    }")>>) \cup LinesAt(out, <<Text("    }"), Text(",")>>)

\* The n-th user entry of the flat dialect, from its opening to its closing
\* line.
Entry(out, n) == SubSeq(out, Nth(EntryOpens(out), n), Nth(EntryCloses(out), n))

Lines(doc) == {doc[i] : i \in 1..Len(doc)}

\* C22: RenderTokenAuthConf returns the empty string for the empty user
\* list and never an authorization block without entries; for a non-empty
\* list it returns one authorization block with one entry per user, the
\* n-th entry being that of the n-th user, closed with a comma unless it is
\* the last.
C22_NoEmptyAuthorizationBlock ==
    last.op = "RenderTokenAuthConf" =>
        LET users == last.users
            out == last.out
        IN  /\ Len(users) = 0 => out = <<>>
            /\ out # <<>> => EntryOpens(out) # {}
            /\ Len(users) > 0 =>
                  /\ LinesAt(out, <<Text("authorization {")>>) = {1}
                  /\ LinesAt(out, <<Text("  users = [")>>) = {2}
                  /\ LinesAt(out, <<Text("  ]")>>) = {Len(out) - 1}
                  /\ LinesAt(out, <<Text("}")>>) = {Len(out)}
                  /\ Cardinality(EntryOpens(out)) = Len(users)
                  /\ Cardinality(EntryCloses(out)) = Len(users)
                  /\ \A n \in 1..Len(users) :
                        /\ Nth(EntryOpens(out), n) < Nth(EntryCloses(out), n)
                        /\ n < Len(users) =>
                              Nth(EntryOpens(out), n + 1)
                                 = Nth(EntryCloses(out), n) + 1
                        /\ out[Nth(EntryCloses(out), n)] =
                              IF n < Len(users)
                              THEN <<Text("    }"), Text(",")>>
                              ELSE <<Text("    }")>>
                        /\ users[n].Username # "" <=>
                              <<Text("      user: "), Quoted(users[n].Username)>>
                                 \in Lines(Entry(out, n))
                        /\ users[n].Token # "" <=>
                              <<Text("      token: "), Quoted(users[n].Token)>>
                                 \in Lines(Entry(out, n))
                        /\ (users[n].Token = "" /\ users[n].Password # "") <=>
                              <<Text("      password: "),
                                Quoted(users[n].Password)>>
                                 \in Lines(Entry(out, n))

\* C22 witness: three users were rendered; the first two entries end with
\* a comma, the third does not.
C22_Witness ==
    /\ last.op = "RenderTokenAuthConf"
    /\ Len(last.users) = 3
    /\ last.users[1] # last.users[2]
    /\ Cardinality(LinesAt(last.out, <<Text("    }"), Text(",")>>)) = 2
    /\ last.out[Len(last.out) - 2] = <<Text("    }")>>

\* The publish (subscribe) block of an entry: from its heading to the line
\* that closes it; no line if the entry has no such block.
PermBlock(entry, name) ==
    LET heads == LinesAt(entry, <<Text("        "), Text(name), Text(": {")>>)
        h == Nth(heads, 1)
        ends == {i \in LinesAt(entry, <<Text("        }")>>) : i > h}
    IN  IF heads = {} THEN <<>> ELSE SubSeq(entry, h, Nth(ends, 1))

\* The lists a user declares; none for a user without permissions.
DeclaredList(user, field) ==
    IF user.Permissions = NoValue THEN <<>> ELSE user.Permissions[field]

\* A block of the entry agrees with the two lists it is rendered from.
BlockAgrees(entry, name, allow, deny) ==
    LET block == PermBlock(entry, name)
    IN  /\ block # <<>> <=> (Len(allow) > 0 \/ Len(deny) > 0)
        /\ Len(allow) > 0 <=>
              <<Text("          allow: ")>> \o formatSubjectList(allow)
                 \in Lines(block)
        /\ Len(deny) > 0 <=>
              <<Text("          deny: ")>> \o formatSubjectList(deny)
                 \in Lines(block)
        /\ Len(allow) = 0 =>
              \A l \in Lines(block) : l[1] # Text("          allow: ")
        /\ Len(deny) = 0 =>
              \A l \in Lines(block) : l[1] # Text("          deny: ")

\* C23: in the flat dialect the entry of a user has a publish block iff the
\* user's publish-allow or publish-deny list is non-empty and a subscribe
\* block iff its subscribe-allow or subscribe-deny list is non-empty, and a
\* block has an allow (deny) line iff that list is non-empty.
C23_PermissionBlocksIffDeclared ==
    last.op = "RenderTokenAuthConf" =>
        \A n \in 1..Len(last.users) :
            LET user == last.users[n]
                entry == Entry(last.out, n)
            IN  /\ BlockAgrees(entry, "publish",
                               DeclaredList(user, "PublishAllow"),
                               DeclaredList(user, "PublishDeny"))
                /\ BlockAgrees(entry, "subscribe",
                               DeclaredList(user, "SubscribeAllow"),
                               DeclaredList(user, "SubscribeDeny"))

\* C23 witness: a user with only publishAllow = ["events.>"] was rendered
\* with a publish block holding the allow line and without subscribe block.
C23_Witness ==
    /\ last.op = "RenderTokenAuthConf"
    /\ Len(last.users) = 1
    /\ last.users[1].Username = "pub"
    /\ PermBlock(last.out, "publish") =
          <<<<Text("        "), Text("publish"), Text(": {")>>,
            <<Text("          allow: "), Quoted("events.>")>>,
            <<Text("        }")>>>>
    /\ PermBlock(last.out, "subscribe") = <<>>

\* C24: formatSubjectList prints one subject quoted and without brackets,
\* and two or more subjects as an opening bracket, the quoted subjects in
\* input order separated by a comma and a space, and a closing bracket.
C24_SubjectListFormat ==
    last.op = "formatSubjectList" =>
        LET subjects == last.subjects
            out == last.out
        IN  /\ Len(subjects) = 1 => out = <<Quoted(subjects[1])>>
            /\ Len(subjects) >= 2 =>
                  /\ Len(out) = 2 * Len(subjects) + 1
                  /\ out[1] = Text("[")
                  /\ out[Len(out)] = Text("]")
                  /\ \A i \in 1..Len(subjects) :
                        out[2 * i] = Quoted(subjects[i])
                  /\ \A i \in 1..(Len(subjects) - 1) :
                        out[2 * i + 1] = Text(", ")

\* C24 witness: a list of three subjects was printed in brackets.
C24_Witness ==
    /\ last.op = "formatSubjectList"
    /\ Len(last.subjects) = 3
    /\ last.subjects[1] # last.subjects[2]
    /\ last.out[1] = Text("[")

\* The mapping a reader of the preload form gets: the account lines of the
\* document in order, a later line for a public id replacing an earlier.
ReadPreload(doc) ==
    LET entries == {i \in 1..Len(doc) : Len(doc[i]) >= 4}
        ids == {doc[i][2][2] : i \in entries}
        lastOf(id) == CHOOSE i \in entries :
                         /\ doc[i][2][2] = id
                         /\ \A j \in entries : doc[j][2][2] = id => j <= i
    IN  [id \in ids |-> doc[lastOf(id)][4][2]]

\* C25: the preload form rendered again from the same inputs is the same
\* document, and rendered from a rearrangement of the accounts it is the
\* same mapping of account public id to account token.
C25_PreloadOrderIndependent ==
    last.op = "RenderJWTAuthConfWithPreload" =>
        /\ last.again = last.out
        /\ ReadPreload(last.outOther) = ReadPreload(last.out)


\* The subjects a user declares in one of the four lists.
DeclaredSubjects(u, field) ==
    IF userSpec[u].permissions = NoValue THEN {}
    ELSE userSpec[u].permissions[field]

\* The reconcile just taken is the first successful one of hierarchical
\* user u, under an account whose status is Ready.
FirstUserReconcile(u) ==
    /\ last'.op = "ReconcileUser" /\ last'.id = u /\ last'.err = ""
    /\ "user-creds" \in last'.writes
    /\ userMeta[u].phase = "live"
    /\ userAuthType(u) = "jwt"
    /\ userSecret[u] = NoValue /\ userStatus[u].publicKey = NoValue
    /\ userSpec[u].accountRef # NoValue
    /\ getAccount(u) # ""
    /\ acctStatus[getAccount(u)].ready = "True"

\* C26: after the first successful reconcile of a hierarchical user under a
\* Ready account, the credentials file in the user's record holds a token
\* whose issuer is the account's public id in status, whose subject is the
\* user's public key in status and whose four subject sets are the
\* declared ones, and the seed that derives the subject.
C26_UserCredentialsContent ==
    [][\A u \in Users :
          FirstUserReconcile(u) =>
             LET creds == userSecret'[u].creds
             IN  /\ creds.jwt.iss = acctStatus[getAccount(u)].accountID
                 /\ creds.jwt.sub = userStatus'[u].publicKey
                 /\ creds.jwt.pubAllow = DeclaredSubjects(u, "publishAllow")
                 /\ creds.jwt.pubDeny = DeclaredSubjects(u, "publishDeny")
                 /\ creds.jwt.subAllow = DeclaredSubjects(u, "subscribeAllow")
                 /\ creds.jwt.subDeny = DeclaredSubjects(u, "subscribeDeny")
                 /\ ValidSeed(creds.seed)
                 /\ PublicKey(creds.seed) = creds.jwt.sub
      ]_vars


\* The aggregate is the one a reconcile of the config has made of the
\* present state: the operator token of the stored operator seed and the
\* persisted token of every account the aggregation collects.
AggregateCurrent ==
    /\ cfgMeta.phase = "live" /\ cfgMeta.finalizer
    /\ cfgSpec.mode \in {"jwt", "mixed"} /\ cfgSpec.jwt
    /\ cfgStatus.ready = "True"
    /\ target # NoValue
    /\ ~getOrCreateOperatorSeed.created
    /\ ValidSeed(getOrCreateOperatorSeed.seed)
    /\ target["operator"].sub = PublicKey(getOrCreateOperatorSeed.seed)
    /\ cfgStatus.operatorPubKey = target["operator"].sub
    /\ DOMAIN target = {"operator"} \cup collectAccountJWTs
    /\ \A a \in collectAccountJWTs : target[a] = acctSecret[a].jwt

\* C27: the aggregation is idempotent. A successful reconcile of a
\* hierarchical config whose aggregate already is the one of the present
\* operator seed and account tokens leaves the aggregate as it is and
\* writes nothing to the store.
C27_AggregationIdempotent ==
    [][(/\ last'.op = "ReconcileAuthConfig" /\ last'.err = ""
        /\ AggregateCurrent)
       => /\ target' = target
          /\ last'.writes = {}
          /\ opSeedSecret' = opSeedSecret]_vars


C29_AuthTypeResolved ==
    last.op = "resolveAuthType" =>
        /\ last.resolved \in {"token", "jwt"}
        /\ last.resolved = "jwt" => last.procedure = "reconcileJWTUser"
        /\ last.resolved = "token" => last.procedure = "reconcileTokenUser"


\* The NatsAuthConfig reconcile just taken is the one an account reconcile
\* in progress has triggered: the account's token is written, the trigger
\* is sent and has not been served before.
TriggeredAggregation ==
    /\ last'.op = "ReconcileAuthConfig" /\ last'.err = ""
    /\ cfgMeta.phase = "live"
    /\ cfgSpec.mode \in {"jwt", "mixed"} /\ cfgSpec.jwt
    /\ cfgDirty
    /\ acctSecret[ConcAccount] # NoValue
    /\ \E w \in Workers : Worker(w).wrote

\* C30: the account's public id is in its persisted status before the
\* NatsAuthConfig is triggered: whenever the triggered aggregation runs,
\* between the steps of the account reconcile or after them, it finds the
\* public id in the account's status and puts the account's token into the
\* aggregate.
C30_StatusBeforeTrigger ==
    [][TriggeredAggregation =>
          /\ acctStatus[ConcAccount].accountID # NoValue
          /\ ConcAccount \in DOMAIN target'
          /\ target'[ConcAccount] = acctSecret[ConcAccount].jwt]_vars


\* The NatsAuthConfig reconcile just taken writes the aggregate in response
\* to the deletion of account a: a's deletion handling has sent its trigger,
\* and the trigger has not been served before.
AggregationAfterDeletion(a) ==
    /\ last'.op = "ReconcileAuthConfig"
    /\ "target" \in last'.writes
    /\ cfgDirty
    /\ acctMeta[a].phase \in {"triggered", "absent"}
    /\ acctSecret[a] # NoValue

\* The aggregate has an entry that holds an account token under a's name.
HasAccountEntry(agg, a) ==
    /\ agg # NoValue
    /\ a \in DOMAIN agg
    /\ agg[a].typ = "account"

\* C31: the aggregate written in response to an account's deletion has no
\* entry for the deleted account, whether the triggered NatsAuthConfig
\* reconcile runs between the trigger and the removal of the finalizer or
\* after both.
C31_DeletedAccountLeavesAggregate ==
    [][\A a \in Accounts :
          AggregationAfterDeletion(a) => ~HasAccountEntry(target', a)]_vars


\* Execution w of getOrCreateOperatorSeed returns a seed in this step.
ReturnsSeed(w) ==
    /\ Worker(w).pc \in {"create", "get"}
    /\ workers'.w[w].pc = "done"
    /\ workers'.w[w].err = ""

\* C32: the operator keypair is created once: an execution of
\* getOrCreateOperatorSeed that returns a seed returns the one seed that is
\* persisted, an execution whose Create lost the race returns the stored
\* seed and not its own candidate, and a seed record that exists is never
\* replaced, so the operator's public id stays what it is.
C32_OperatorSeedCreatedOnce ==
    [][/\ \A w \in Workers : ReturnsSeed(w) =>
             /\ opSeedSecret' # NoValue
             /\ workers'.w[w].seen = opSeedSecret'
             /\ ~workers'.w[w].wrote => opSeedSecret' = opSeedSecret
       /\ (opSeedSecret # NoValue /\ opSeedSecret' # NoValue) =>
             PublicKey(opSeedSecret') = PublicKey(opSeedSecret)]_vars

\* Two executions have returned, one stored its candidate, the other lost
\* the race and returned the stored seed instead of its own candidate.
C32_Witness ==
    \E w1, w2 \in Workers :
        /\ w1 # w2
        /\ Worker(w1).pc = "done" /\ Worker(w1).err = "" /\ Worker(w1).wrote
        /\ Worker(w2).pc = "done" /\ Worker(w2).err = ""
        /\ ~Worker(w2).wrote
        /\ Worker(w2).secret # NoValue
        /\ Worker(w2).secret # Worker(w2).seen
        /\ Worker(w2).seen = opSeedSecret
        /\ Worker(w1).seen = opSeedSecret


\* Account a has a signed token on record and its public id in its status.
HasToken(a) ==
    /\ acctMeta[a].phase # "absent"
    /\ acctSecret[a] # NoValue
    /\ acctSecret[a].jwt # NoValue
    /\ acctStatus[a].accountID # NoValue

\* C33: the account reconciler and the aggregation agree on the
\* NatsAuthConfig an account references: right after a successful JWT-mode
\* reconcile of the NatsAuthConfig, an account with a token has its token in
\* the aggregate if and only if its authConfigRef, resolved by name and
\* namespace (the account's own when none is given), designates the config.
C33_ReferenceResolutionAgrees ==
    (/\ last.op = "ReconcileAuthConfig" /\ last.err = ""
     /\ cfgMeta.phase = "live"
     /\ cfgSpec.mode \in {"jwt", "mixed"} /\ cfgSpec.jwt)
    => \A a \in Accounts :
          HasToken(a) =>
             ((HasAccountEntry(target, a) /\ target[a] = acctSecret[a].jwt)
                 <=> acctGetAuthConfig(a))


\* C34: in every aggregate a JWT-mode reconcile writes, the entry "operator"
\* is the operator's own token and the entry of each collected account is
\* that account's token, whatever the accounts are named: no account takes
\* the place of the operator entry and no entry stands for two accounts.
C34_EntriesHoldTheirOwnTokens ==
    (/\ last.op = "ReconcileAuthConfig" /\ last.err = ""
     /\ "target" \in last.writes
     /\ cfgSpec.mode \in {"jwt", "mixed"})
    => /\ target["operator"].typ = "operator"
       /\ target["operator"].sub = cfgStatus.operatorPubKey
       /\ \A a \in collectAccountJWTs :
             /\ a \in DOMAIN target
             /\ target[a].typ = "account"
             /\ target[a].name = a
             /\ target[a] = acctSecret[a].jwt
       /\ Cardinality(DOMAIN target) = 1 + Cardinality(collectAccountJWTs)


\* The latest operation is a reconcile of the live user u whose
\* Status().Update went through.
UserStatusPersisted(u) ==
    /\ last.op = "ReconcileUser" /\ last.id = u
    /\ userMeta[u].phase = "live"
    /\ last.err # "status update conflict"

\* C35: after every reconcile of a user that persists its status, the
\* status agrees with itself: state is Ready exactly when the Ready
\* condition is True and Error exactly when the Ready condition is False,
\* on the error paths too, the unresolved NatsAuthConfig included.
C35_UserStatusSelfConsistent ==
    \A u \in Users :
        UserStatusPersisted(u) =>
            /\ userStatus[u].state = "Ready" <=> userStatus[u].ready = "True"
            /\ userStatus[u].state = "Error" <=> userStatus[u].ready = "False"


\* C36: status.resolverReady of a NatsAuthConfig is true only when the most
\* recent reconcile wrote the rendered artifact: whenever the persisted
\* Ready condition is False, with reason InvalidSpec or ReconcileError,
\* resolverReady is false.
C36_ResolverReadyFollowsReady ==
    (/\ cfgMeta.phase # "absent"
     /\ cfgStatus.ready = "False"
     /\ cfgStatus.reason \in {"InvalidSpec", "ReconcileError"})
    => ~cfgStatus.resolverReady


\* User u is a hierarchical user whose status has a public key and whose
\* credential record exists.
HasUserRecord(u) ==
    /\ userMeta[u].phase # "absent"
    /\ userStatus[u].publicKey # NoValue
    /\ userSecret[u] # NoValue
    /\ userSecret[u].jwt # NoValue

\* C37: whenever a hierarchical user's persisted status has a public key
\* and its credential record exists, that public key is the public id of
\* the seed in the record and the subject of the token in the record,
\* whatever reconciles, deletions of the record and failed status updates
\* came before.
C37_UserStatusMatchesRecord ==
    \A u \in Users :
        HasUserRecord(u) =>
            /\ userStatus[u].publicKey = PublicKey(userSecret[u].seed)
            /\ userStatus[u].publicKey = userSecret[u].jwt.sub


\* The step changes no credential record and no aggregate and sends no
\* notification.
NoSideEffects ==
    /\ last'.writes = {}
    /\ UNCHANGED <<opSeedSecret, target, acctSecret, userSecret>>
    /\ cfgDirty' => cfgDirty

\* The step is a reconcile of live account a under a flat-mode config.
AccountUnderTokenMode(a) ==
    /\ last'.op = "ReconcileAccount" /\ last'.id = a
    /\ acctMeta[a].phase = "live"
    /\ acctGetAuthConfig(a)
    /\ cfgSpec.mode = "token"

\* The step is a reconcile of a live hierarchical or mixed config declared
\* without the jwt block.
ConfigWithoutJWTBlock ==
    /\ last'.op = "ReconcileAuthConfig"
    /\ cfgMeta.phase = "live"
    /\ cfgSpec.mode \in {"jwt", "mixed"}
    /\ ~cfgSpec.jwt

\* The step is a reconcile of live hierarchical user u declared without
\* accountRef.
UserWithoutAccountRef(u) ==
    /\ last'.op = "ReconcileUser" /\ last'.id = u
    /\ userMeta[u].phase = "live"
    /\ userGetAuthConfig(u)
    /\ userAuthType(u) = "jwt"
    /\ userSpec[u].accountRef = NoValue

OnlyKeySet(before, after, key, value) ==
    /\ after # NoValue
    /\ DOMAIN after = (IF before = NoValue THEN {} ELSE DOMAIN before)
                          \cup {key}
    /\ after[key] = value
    /\ \A k \in DOMAIN after \ {key} : after[k] = before[k]

\* The API call named by the fault is one the call makes on this object.
FaultHits(before, fault) ==
    \/ fault = "get"
    \/ fault = "create" /\ before = NoValue
    \/ fault = "update" /\ before # NoValue

\* C39: WriteResolverConfig writes to the Secret when configType is
\* "Secret" and to the ConfigMap for every other value; it sets the entry
\* of the given key to the content, keeps every other entry of an existing
\* object and creates a missing object with that one entry; when an API
\* call fails it returns the error and both objects are as before.
C39_WriteResolverConfigFrame ==
    last.op = "WriteResolverConfig" =>
        LET toSecret == last.id = "Secret"
            before == IF toSecret THEN last.before.secret
                      ELSE last.before.configMap
            after == IF toSecret THEN last.after.secret
                     ELSE last.after.configMap
            value == IF toSecret THEN Bytes(last.content) ELSE last.content
        IN  /\ toSecret => last.after.configMap = last.before.configMap
            /\ ~toSecret => last.after.secret = last.before.secret
            /\ FaultHits(before, last.fault) <=> last.err # ""
            /\ last.err # "" => last.after = last.before
            /\ last.err = "" => OnlyKeySet(before, after, last.key, value)

\* An existing Secret with another entry had the key set, and a ConfigMap
\* of the same name exists next to it.
C39_Witness ==
    /\ last.op = "WriteResolverConfig" /\ last.id = "Secret"
    /\ last.err = ""
    /\ last.before.secret # NoValue
    /\ "other" \in DOMAIN last.before.secret
    /\ last.key \in DOMAIN last.before.secret
    /\ last.after.secret[last.key] # last.before.secret[last.key]
    /\ last.after.secret["other"] = last.before.secret["other"]
    /\ last.before.configMap # NoValue


\* The call left the files of the accounts other than id and the operator
\* token file as they were.
OtherFilesKept(before, after, id) ==
    /\ \A other \in AccountIDs \ {id} :
          FileAt(after, GetAccountJWTPath(after, other))
             = FileAt(before, GetAccountJWTPath(before, other))
    /\ FileAt(after, GetOperatorJWTPath(after))
          = FileAt(before, GetOperatorJWTPath(before))

====
